---- MODULE Spec2Model ----
(***************************************************************************)
(* posix-system-mcp: the telemetry collectors (main.go), the stdio tool    *)
(* handlers (registerTools) and the HTTP JSON-RPC adapter (HTTPServer).    *)
(*                                                                         *)
(* Go strings on which the code works character by character (process      *)
(* names, the name filter, the sort key) are sequences of one-character    *)
(* strings; strings the code only compares for equality (tool names,       *)
(* JSON-RPC methods, paths, interface names) are TLA+ strings.  Percentages *)
(* are integers: the code only compares them.                               *)
(***************************************************************************)
EXTENDS Integers, Sequences, FiniteSets, TLC

\* ------------------------------------------------------------------ bounds

\* Longest OS table (processes, partitions, interfaces) enumerated
\* exhaustively: every arrangement of the universe up to this length.
MaxTable == 3
\* Sizes of the two generated process tables: more than twice the default
\* limit and more than twice the upper limit.
MidProcs == 25
ManyProcs == 450
\* Requests served at the same time, each by a goroutine of its own.
MaxGoroutines == 2

\* ------------------------------------------------------- program constants

DefaultLimit == 10
MaxLimit == 200
MinIntervalMs == 100
MaxIntervalMs == 10000
DefaultIntervalMs == 1000

\* ------------------------------------------------------------------ strings

UpperLetters ==
  <<"A","B","C","D","E","F","G","H","I","J","K","L","M",
    "N","O","P","Q","R","S","T","U","V","W","X","Y","Z">>

LowerLetters ==
  <<"a","b","c","d","e","f","g","h","i","j","k","l","m",
    "n","o","p","q","r","s","t","u","v","w","x","y","z">>

Range(f) == {f[i] : i \in DOMAIN f}

\* Position of c in seq, 0 when absent.
IndexOf(c, seq) ==
  IF \E i \in 1..Len(seq) : seq[i] = c
  THEN CHOOSE i \in 1..Len(seq) : seq[i] = c
  ELSE 0

Alphabet == Range(UpperLetters) \cup Range(LowerLetters) \cup {"_", "-"}

\* Byte value of each character (ASCII).
ByteOf ==
  [c \in Alphabet |->
     IF IndexOf(c, UpperLetters) > 0 THEN 64 + IndexOf(c, UpperLetters)
     ELSE IF IndexOf(c, LowerLetters) > 0 THEN 96 + IndexOf(c, LowerLetters)
     ELSE IF c = "_" THEN 95
     ELSE 45]

Ord(c) == ByteOf[c]

\* unicode.ToLower on each character: an upper-case letter becomes its
\* lower-case letter, anything else stays.
LowerOf ==
  [c \in Alphabet |->
     IF IndexOf(c, UpperLetters) > 0 THEN LowerLetters[IndexOf(c, UpperLetters)]
     ELSE c]

ToLowerChar(c) == LowerOf[c]

\* strings.ToLower
ToLower(s) == [i \in 1..Len(s) |-> ToLowerChar(s[i])]

\* strings.Contains: sub occurs in s as a contiguous run ("" occurs in all).
Contains(s, sub) ==
  \E i \in 0..(Len(s) - Len(sub)) : SubSeq(s, i + 1, i + Len(sub)) = sub

\* Go's string "<": bytewise lexicographic order.
RECURSIVE StrLess(_, _)
StrLess(a, b) ==
  IF Len(b) = 0 THEN FALSE
  ELSE IF Len(a) = 0 THEN TRUE
  ELSE IF Ord(a[1]) # Ord(b[1]) THEN Ord(a[1]) < Ord(b[1])
  ELSE StrLess(Tail(a), Tail(b))

kCpu == <<"c","p","u">>
kMemory == <<"m","e","m","o","r","y">>
kPid == <<"p","i","d">>
kName == <<"n","a","m","e">>

\* ------------------------------------------------------------------- errors

\* A Go error: nil, or fmt.Errorf(format, arg...) with the wrapped cause.
NoError == [nil |-> TRUE, format |-> "", s |-> "", n |-> 0, cause |-> ""]

Errorf(format, s, n, cause) ==
  [nil |-> FALSE, format |-> format, s |-> s, n |-> n, cause |-> cause]

\* ------------------------------------------------- what the OS reports

\* One library call made by a collector: the gopsutil function, and its
\* string or integer argument.
LibCall(fn, s, n) == [fn |-> fn, s |-> s, n |-> n]

\* The outcome of one collector call.  Fields a collector does not set keep
\* their Go zero value.  Beside the returned values it records two locals of
\* the collector: limit, getProcessInfo's limit after main.go:484-489, and
\* window, the sampling interval (ms) getCPUInfo hands to cpu.Percent; trace
\* lists the library calls made, in order (the per-process detail queries of
\* getProcessDetails are not listed).
ZeroRet ==
  [err |-> NoError, Processes |-> <<>>, Count |-> 0, Disks |-> <<>>,
   Interfaces |-> <<>>, limit |-> 0, window |-> 0, trace |-> <<>>]

\* ------------------------------------------------------------ getProcessInfo

\* A changed NormalizeLimit: a non-positive limit clamps to the lower bound.
NormalizeLimitClampsLow(limit) ==
  LET l1 == IF limit <= 0 THEN 1 ELSE limit
  IN  IF l1 > MaxLimit THEN MaxLimit ELSE l1

\* main.go:484-489
NormalizeLimit(limit) ==
  LET l1 == IF limit <= 0 THEN DefaultLimit ELSE limit
  IN  IF l1 > MaxLimit THEN MaxLimit ELSE l1

\* main.go:529-569.  Every query error is discarded, so a process that
\* vanished (p.gone) yields a record of zero values under its PID, and the
\* returned error is always nil.
getProcessDetails(p) ==
  [info |-> [PID |-> p.Pid,
             Name |-> IF p.gone THEN <<>> ELSE p.Name,
             CPUPercent |-> IF p.gone THEN 0 ELSE p.CPU,
             MemoryPercent |-> IF p.gone THEN 0 ELSE p.Mem],
   err |-> NoError]

\* A changed ProcLess: memory ascending.
ProcLessMemoryAscending(mode, a, b) ==
  IF mode = "memory" THEN a.MemoryPercent < b.MemoryPercent
  ELSE IF mode = "pid" THEN a.PID < b.PID
  ELSE IF mode = "name" THEN StrLess(a.Name, b.Name)
  ELSE a.CPUPercent > b.CPUPercent

\* The less functions handed to sort.SliceStable, main.go:574-580.
ProcLess(mode, a, b) ==
  IF mode = "memory" THEN a.MemoryPercent > b.MemoryPercent
  ELSE IF mode = "pid" THEN a.PID < b.PID
  ELSE IF mode = "name" THEN StrLess(a.Name, b.Name)
  ELSE a.CPUPercent > b.CPUPercent

\* Stable insertion of x into the sorted list: after every element that x is
\* not less than.
InsertAt(sorted, x, k) ==
  SubSeq(sorted, 1, k) \o <<x>> \o SubSeq(sorted, k + 1, Len(sorted))

InsertBeforeEquals(sorted, x, mode) ==
  InsertAt(sorted, x,
           Cardinality({j \in 1..Len(sorted) : ProcLess(mode, sorted[j], x)}))

InsertStable(sorted, x, mode) ==
  InsertAt(sorted, x,
           Cardinality({j \in 1..Len(sorted) : ~ProcLess(mode, x, sorted[j])}))

\* sort.SliceStable: a stable sort by the less function of the mode.  The
\* elements list[lo..hi] are inserted left to right into sorted; the range is
\* halved, and the left half evaluated first, only to keep TLC's evaluation
\* shallow.
RECURSIVE SliceStable(_, _, _, _, _)
SortRest(list, lo, hi, mode, left) ==
  IF Len(left) >= 0 THEN SliceStable(list, lo, hi, mode, left) ELSE left

SliceStable(list, lo, hi, mode, sorted) ==
  IF lo > hi THEN sorted
  ELSE IF lo = hi THEN InsertStable(sorted, list[lo], mode)
  ELSE SortRest(list, ((lo + hi) \div 2) + 1, hi, mode,
                SliceStable(list, lo, (lo + hi) \div 2, mode, sorted))

\* The switch of main.go:572.
SortMode(sortBy) ==
  LET k == ToLower(sortBy)
  IN  IF k = kMemory THEN "memory"
      ELSE IF k = kPid THEN "pid"
      ELSE IF k = kName THEN "name"
      ELSE "cpu"

\* main.go:571-582
sortProcessesBy(processes, sortBy) ==
  SliceStable(processes, 1, Len(processes), SortMode(sortBy), <<>>)

ScanStepInvertedFilter(p, name, limit, list) ==
  IF Len(list) >= limit * 2 THEN list
  ELSE IF name # <<>> /\ Contains(ToLower(getProcessDetails(p).info.Name), ToLower(name))
  THEN list
  ELSE Append(list, getProcessDetails(p).info)

ScanStepStopsAtLimit(p, name, limit, list) ==
  IF Len(list) >= limit THEN list
  ELSE IF name # <<>> /\ ~Contains(ToLower(getProcessDetails(p).info.Name), ToLower(name))
  THEN list
  ELSE Append(list, getProcessDetails(p).info)

\* One iteration of the loop of main.go:507-519 on process p, with list
\* gathered so far; an iteration after the break leaves list as it is.
ScanStep(p, name, limit, list) ==
  IF Len(list) >= limit * 2 THEN list
  ELSE LET d == getProcessDetails(p)
       IN  IF ~d.err.nil THEN list
           ELSE IF name # <<>> /\ ~Contains(ToLower(d.info.Name), ToLower(name))
           THEN list
           ELSE Append(list, d.info)

\* The scan loop of main.go:507-519 over procs[lo..hi], left to right; the
\* range is halved, and the left half evaluated first, only to keep TLC's
\* evaluation shallow.
RECURSIVE ScanProcesses(_, _, _, _, _, _)
ScanRest(procs, lo, hi, name, limit, left) ==
  IF Len(left) >= 0 THEN ScanProcesses(procs, lo, hi, name, limit, left) ELSE left

ScanProcesses(procs, lo, hi, name, limit, list) ==
  IF lo > hi THEN list
  ELSE IF lo = hi THEN ScanStep(procs[lo], name, limit, list)
  ELSE ScanRest(procs, ((lo + hi) \div 2) + 1, hi, name, limit,
                ScanProcesses(procs, lo, (lo + hi) \div 2, name, limit, list))

\* A changed Truncate: one record too many is kept.
TruncateOneMore(list, limit) ==
  IF Len(list) > limit THEN SubSeq(list, 1, limit + 1) ELSE list

\* list[:limit] when len(list) > limit, main.go:521-523
Truncate(list, limit) ==
  IF Len(list) > limit THEN SubSeq(list, 1, limit) ELSE list

\* process.NewProcess(pid): the process must exist when it is opened.
HasPid(os, pid) == \E i \in 1..Len(os.procs) : os.procs[i].Pid = pid

ProcOfPid(os, pid) ==
  os.procs[CHOOSE i \in 1..Len(os.procs) : os.procs[i].Pid = pid]

\* ProcessInfoResult{Processes: list, Count: len(list)}, main.go:526
ProcessInfoResult(list, limit, trace) ==
  [ZeroRet EXCEPT !.Processes = list, !.Count = Len(list), !.limit = limit,
                  !.trace = trace]

\* return ProcessInfoResult{}, fmt.Errorf(...)
ProcessInfoError(err, limit, trace) ==
  [ZeroRet EXCEPT !.err = err, !.limit = limit, !.trace = trace]

\* A changed ProcessInfoWithLimit: the name filter applies to the single
\* lookup as well.
ProcessInfoFiltersLookup(os, pid, name, limit, sortBy) ==
  IF pid > 0
  THEN IF ~HasPid(os, pid)
       THEN ProcessInfoError(
              Errorf("failed to get process %d: %w", "", pid, "process does not exist"),
              limit, <<LibCall("process.NewProcess", "", pid)>>)
       ELSE ProcessInfoResult(ScanStep(ProcOfPid(os, pid), name, limit, <<>>),
                              limit, <<LibCall("process.NewProcess", "", pid)>>)
  ELSE IF os.procsErr
       THEN ProcessInfoError(
              Errorf("failed to list processes: %w", "", 0, "os error"),
              limit, <<LibCall("process.Processes", "", 0)>>)
       ELSE ProcessInfoResult(
              Truncate(sortProcessesBy(
                         ScanProcesses(os.procs, 1, Len(os.procs), name, limit, <<>>),
                         sortBy),
                       limit),
              limit, <<LibCall("process.Processes", "", 0)>>)

\* main.go:491-526, with the limit of main.go:484-489
ProcessInfoWithLimit(os, pid, name, limit, sortBy) ==
  IF pid > 0
  THEN IF ~HasPid(os, pid)
       THEN ProcessInfoError(
              Errorf("failed to get process %d: %w", "", pid, "process does not exist"),
              limit, <<LibCall("process.NewProcess", "", pid)>>)
       ELSE IF ~getProcessDetails(ProcOfPid(os, pid)).err.nil
       THEN ProcessInfoError(
              Errorf("failed to get process details: %w", "", 0,
                     getProcessDetails(ProcOfPid(os, pid)).err.format),
              limit, <<LibCall("process.NewProcess", "", pid)>>)
       ELSE ProcessInfoResult(<<getProcessDetails(ProcOfPid(os, pid)).info>>,
                              limit, <<LibCall("process.NewProcess", "", pid)>>)
  ELSE IF os.procsErr
       THEN ProcessInfoError(
              Errorf("failed to list processes: %w", "", 0, "os error"),
              limit, <<LibCall("process.Processes", "", 0)>>)
       ELSE ProcessInfoResult(
              Truncate(sortProcessesBy(
                         ScanProcesses(os.procs, 1, Len(os.procs), name, limit, <<>>),
                         sortBy),
                       limit),
              limit, <<LibCall("process.Processes", "", 0)>>)

\* main.go:483-527
getProcessInfo(os, pid, name, limit, sortBy) ==
  ProcessInfoWithLimit(os, pid, name, NormalizeLimit(limit), sortBy)

\* ---------------------------------------------------------------- getCPUInfo

\* A changed EffectiveInterval: no upper clamp.
EffectiveIntervalNoUpperClamp(intervalMs) ==
  IF intervalMs > 0
  THEN IF intervalMs < MinIntervalMs THEN MinIntervalMs ELSE intervalMs
  ELSE DefaultIntervalMs

\* main.go:329-338: the sampling window in ms (time.Second when intervalMs is
\* not positive).
EffectiveInterval(intervalMs) ==
  IF intervalMs > 0
  THEN LET i1 == IF intervalMs < MinIntervalMs THEN MinIntervalMs ELSE intervalMs
           i2 == IF i1 > MaxIntervalMs THEN MaxIntervalMs ELSE i1
       IN  i2
  ELSE DefaultIntervalMs

\* main.go:328-387
getCPUInfo(os, perCPU, intervalMs) ==
  LET interval == EffectiveInterval(intervalMs)
      percent == LibCall("cpu.Percent", IF perCPU THEN "percpu" ELSE "total", interval)
  IN  IF os.percentErr
      THEN [ZeroRet EXCEPT
              !.err = Errorf("failed to get CPU usage: %w", "", 0, "os error"),
              !.window = interval, !.trace = <<percent>>]
      ELSE IF os.cpuInfoErr
      THEN [ZeroRet EXCEPT
              !.err = Errorf("failed to get CPU info: %w", "", 0, "os error"),
              !.window = interval,
              !.trace = <<percent, LibCall("cpu.Info", "", 0)>>]
      ELSE [ZeroRet EXCEPT
              !.window = interval,
              !.trace = <<percent, LibCall("cpu.Info", "", 0),
                          LibCall("cpu.Counts", "logical", 0),
                          LibCall("cpu.Counts", "physical", 0)>>]

\* --------------------------------------------------------------- getDiskInfo

\* A changed ScanPartitions: the first failing usage query ends the call with
\* an error.
RECURSIVE ScanPartitionsAborts(_, _, _)
ScanPartitionsAborts(os, i, acc) ==
  IF i > Len(os.parts) THEN acc
  ELSE IF os.parts[i].Mountpoint \notin os.usageOK
       THEN [ZeroRet EXCEPT
               !.err = Errorf("failed to get disk usage for %s: %w",
                              os.parts[i].Mountpoint, 0, "os error"),
               !.trace = Append(acc.trace,
                                LibCall("disk.Usage", os.parts[i].Mountpoint, 0))]
       ELSE ScanPartitionsAborts(os, i + 1,
              [acc EXCEPT
                 !.trace = Append(@, LibCall("disk.Usage", os.parts[i].Mountpoint, 0)),
                 !.Disks = Append(@, [Device |-> os.parts[i].Device,
                                      Mountpoint |-> os.parts[i].Mountpoint,
                                      Fstype |-> os.parts[i].Fstype])])

\* The loop of main.go:436-453 from partition i: acc holds the records
\* appended and the library calls made so far.
RECURSIVE ScanPartitions(_, _, _)
ScanPartitions(os, i, acc) ==
  IF i > Len(os.parts) THEN acc
  ELSE LET p == os.parts[i]
           call == LibCall("disk.Usage", p.Mountpoint, 0)
       IN  IF p.Mountpoint \notin os.usageOK
           THEN ScanPartitions(os, i + 1,
                  [acc EXCEPT !.trace = Append(@, call)])
           ELSE ScanPartitions(os, i + 1,
                  [acc EXCEPT
                     !.trace = Append(@, call),
                     !.Disks = Append(@, [Device |-> p.Device,
                                          Mountpoint |-> p.Mountpoint,
                                          Fstype |-> p.Fstype])])

\* A changed PathRecord: the device is left empty.
PathRecordNoDevice(path) == [Device |-> "", Mountpoint |-> path, Fstype |-> "fs"]

\* The record of main.go:419-430.
PathRecord(path) == [Device |-> "N/A", Mountpoint |-> path, Fstype |-> "fs"]

\* main.go:412-456
getDiskInfo(os, path) ==
  IF path # ""
  THEN IF path \notin os.usageOK
       THEN [ZeroRet EXCEPT
               !.err = Errorf("failed to get disk usage for %s: %w", path, 0, "os error"),
               !.trace = <<LibCall("disk.Usage", path, 0)>>]
       ELSE [ZeroRet EXCEPT
               !.Disks = <<PathRecord(path)>>,
               !.trace = <<LibCall("disk.Usage", path, 0)>>]
  ELSE IF os.partsErr
       THEN [ZeroRet EXCEPT
               !.err = Errorf("failed to get disk partitions: %w", "", 0, "os error"),
               !.trace = <<LibCall("disk.Partitions", "", 0)>>]
       ELSE ScanPartitions(os, 1,
              [ZeroRet EXCEPT !.trace = <<LibCall("disk.Partitions", "", 0)>>])

\* ------------------------------------------------------------ getNetworkInfo

\* A changed ScanInterfaces: the filter is ignored.
ScanInterfacesUnfiltered(stats, i, iface, out) ==
  [k \in 1..Len(stats) |->
     [Interface |-> stats[k].Name, BytesSent |-> stats[k].BytesSent]]

\* The loop of main.go:464-479 from interface i.
RECURSIVE ScanInterfaces(_, _, _, _)
ScanInterfaces(stats, i, iface, out) ==
  IF i > Len(stats) THEN out
  ELSE IF iface # "" /\ stats[i].Name # iface
       THEN ScanInterfaces(stats, i + 1, iface, out)
       ELSE ScanInterfaces(stats, i + 1, iface,
              Append(out, [Interface |-> stats[i].Name,
                           BytesSent |-> stats[i].BytesSent]))

\* main.go:458-481
getNetworkInfo(os, iface) ==
  IF os.netErr
  THEN [ZeroRet EXCEPT
          !.err = Errorf("failed to get network stats: %w", "", 0, "os error"),
          !.trace = <<LibCall("net.IOCounters", "", 0)>>]
  ELSE [ZeroRet EXCEPT
          !.Interfaces = ScanInterfaces(os.stats, 1, iface, <<>>),
          !.trace = <<LibCall("net.IOCounters", "", 0)>>]

\* ------------------------------------- getSystemInfo, getMemoryInfo, getLoadAverage

\* main.go:298-326
getSystemInfo(os) ==
  IF os.hostErr
  THEN [ZeroRet EXCEPT
          !.err = Errorf("failed to get host info: %w", "", 0, "os error"),
          !.trace = <<LibCall("host.Info", "", 0)>>]
  ELSE [ZeroRet EXCEPT
          !.trace = <<LibCall("host.Info", "", 0),
                      LibCall("host.SensorsTemperatures", "", 0)>>]

\* main.go:389-410
getMemoryInfo(os) ==
  IF os.vmErr
  THEN [ZeroRet EXCEPT
          !.err = Errorf("failed to get virtual memory: %w", "", 0, "os error"),
          !.trace = <<LibCall("mem.VirtualMemory", "", 0)>>]
  ELSE IF os.swapErr
  THEN [ZeroRet EXCEPT
          !.err = Errorf("failed to get swap memory: %w", "", 0, "os error"),
          !.trace = <<LibCall("mem.VirtualMemory", "", 0),
                      LibCall("mem.SwapMemory", "", 0)>>]
  ELSE [ZeroRet EXCEPT
          !.trace = <<LibCall("mem.VirtualMemory", "", 0),
                      LibCall("mem.SwapMemory", "", 0)>>]

\* main.go:584-590
getLoadAverage(os) ==
  IF os.loadErr
  THEN [ZeroRet EXCEPT
          !.err = Errorf("failed to get load average: %w", "", 0, "os error"),
          !.trace = <<LibCall("load.Avg", "", 0)>>]
  ELSE [ZeroRet EXCEPT !.trace = <<LibCall("load.Avg", "", 0)>>]

\* A collector invocation: the tool name it was requested under, the
\* collector, and its parameters; those the collector does not take are zero.
NoCall ==
  [tool |-> "", fn |-> "none", pid |-> 0, name |-> <<>>, limit |-> 0, sortBy |-> <<>>,
   path |-> "", iface |-> "", perCPU |-> FALSE, intervalMs |-> 0]

\* ------------------------------------------------------------ JSON values

\* A decoded JSON value of an argument bag (interface{}): absent, a bool, a
\* number, a string (s, or cs when the code works on its characters), or
\* anything else (null, array, object).  A number is a float64: the integer
\* n, or n + 1/2 (half), or a number such as 1e19 that no int holds (huge; n
\* is then what the build's conversion to int yields).
JAbsent ==
  [t |-> "absent", b |-> FALSE, n |-> 0, half |-> FALSE, huge |-> FALSE,
   s |-> "", cs |-> <<>>]
JBool(b) == [JAbsent EXCEPT !.t = "bool", !.b = b]
JNum(n) == [JAbsent EXCEPT !.t = "num", !.n = n]
JStr(str) == [JAbsent EXCEPT !.t = "str", !.s = str]
JChars(cs) == [JAbsent EXCEPT !.t = "str", !.cs = cs]
JOther == [JAbsent EXCEPT !.t = "other"]
JHalf(n) == [JAbsent EXCEPT !.t = "num", !.n = n, !.half = TRUE]
JHuge(outcome) == [JAbsent EXCEPT !.t = "num", !.n = outcome, !.huge = TRUE]

\* The values that stand for the least and the greatest int: converting a
\* float64 that no int holds is implementation-dependent in Go; amd64 yields
\* the least int, arm64 the nearest end of the range.
MostNegative == -2147483647
MostPositive == 2147483647
OverflowOutcomes == {MostNegative, MostPositive}

\* int(val) of a float64: the fraction is dropped, towards zero.
IntOfFloat(v) ==
  IF v.huge THEN v.n
  ELSE IF v.half /\ v.n < 0 THEN v.n + 1
  ELSE v.n

\* val, ok := arguments[k].(bool) / .(float64) / .(string), with the default
\* the code keeps when ok is false.
AsBool(v, default) == IF v.t = "bool" THEN v.b ELSE default
AsInt(v, default) == IF v.t = "num" THEN IntOfFloat(v) ELSE default
AsString(v, default) == IF v.t = "str" THEN v.s ELSE default
AsChars(v, default) == IF v.t = "str" THEN v.cs ELSE default

\* params["arguments"]: absent, not an object, or an object with these
\* fields (absent fields are JAbsent).
NoArguments ==
  [t |-> "absent", per_cpu |-> JAbsent, interval_ms |-> JAbsent,
   path |-> JAbsent, interface |-> JAbsent, pid |-> JAbsent, name |-> JAbsent,
   limit |-> JAbsent, sort_by |-> JAbsent, verbose |-> JAbsent]
OtherArguments == [NoArguments EXCEPT !.t = "other"]
EmptyArguments == [NoArguments EXCEPT !.t = "object"]

\* The params of a request: absent, not an object, or an object with a name
\* and arguments.
NoParams == [t |-> "absent", name |-> JAbsent, arguments |-> NoArguments]
OtherParams == [NoParams EXCEPT !.t = "other"]
CallParams(name, arguments) == [t |-> "object", name |-> name, arguments |-> arguments]

\* A JSON-RPC id on the wire: absent, null, a string, or a non-negative
\* integer hi * 2^30 + lo below 2^54 (two limbs, so that 2^53 is in reach).
Limb == 2^30
IdAbsent == [t |-> "absent", s |-> "", hi |-> 0, lo |-> 0]
IdNull == [IdAbsent EXCEPT !.t = "null"]
IdStr(str) == [IdAbsent EXCEPT !.t = "str", !.s = str]
IdNum(hi, lo) == [IdAbsent EXCEPT !.t = "num", !.hi = hi, !.lo = lo]

\* strconv.ParseFloat of an integer literal: the nearest float64, ties to
\* even.  Below 2^53 every integer is a float64; from 2^53 to 2^54 only the
\* even ones are.
Float64OfInt(hi, lo) ==
  IF hi < 2^23 \/ lo % 2 = 0 THEN <<hi, lo>>
  ELSE IF (lo - 1) % 4 = 0 THEN <<hi, lo - 1>>
  ELSE IF lo + 1 = Limb THEN <<hi + 1, 0>>
  ELSE <<hi, lo + 1>>

\* json.Unmarshal into ID interface{} (part_000:28): absent and null leave
\* nil, a number becomes a float64.
DecodeId(id) ==
  IF id.t \in {"absent", "null"} THEN [t |-> "nil", s |-> "", hi |-> 0, lo |-> 0]
  ELSE IF id.t = "str" THEN [t |-> "string", s |-> id.s, hi |-> 0, lo |-> 0]
  ELSE [t |-> "float64", s |-> "",
        hi |-> Float64OfInt(id.hi, id.lo)[1], lo |-> Float64OfInt(id.hi, id.lo)[2]]

\* json.Encoder.Encode of ID interface{} (part_000:36, no omitempty): nil is
\* written as null, an integral float64 as its digits.
EncodeId(v) ==
  IF v.t = "nil" THEN IdNull
  ELSE IF v.t = "string" THEN IdStr(v.s)
  ELSE IdNum(v.hi, v.lo)

\* ------------------------------------------------------------- parseConfig

\* The config query parameter: absent (""), not base64, base64 of something
\* that is no ServerConfig JSON, or base64 of a ServerConfig (a field left out
\* decodes to its zero value).
NoConfigParam == [t |-> "absent", RefreshInterval |-> 0, EnableDebug |-> FALSE]
BadBase64 == [NoConfigParam EXCEPT !.t = "badbase64"]
BadJSON == [NoConfigParam EXCEPT !.t = "badjson"]
ConfigParam(interval, debug) ==
  [t |-> "ok", RefreshInterval |-> interval, EnableDebug |-> debug]

parseConfigResetsOnError(cfg, param) ==
  IF param.t \in {"badbase64", "badjson"}
  THEN [config |-> [RefreshInterval |-> 1000, EnableDebug |-> FALSE],
        err |-> Errorf("failed to decode config: %w", "", 0, "")]
  ELSE [config |->
          [RefreshInterval |->
             IF param.RefreshInterval < 100 \/ param.RefreshInterval > 10000
             THEN 1000 ELSE param.RefreshInterval,
           EnableDebug |-> param.EnableDebug],
        err |-> NoError]

parseConfigLowerBoundOnly(cfg, param) ==
  IF param.t \in {"badbase64", "badjson"}
  THEN [config |-> cfg, err |-> Errorf("failed to decode config: %w", "", 0, "")]
  ELSE [config |->
          [RefreshInterval |->
             IF param.RefreshInterval < 100 THEN 1000 ELSE param.RefreshInterval,
           EnableDebug |-> param.EnableDebug],
        err |-> NoError]

parseConfigUnvalidated(cfg, param) ==
  IF param.t \in {"badbase64", "badjson"}
  THEN [config |-> cfg, err |-> Errorf("failed to decode config: %w", "", 0, "")]
  ELSE [config |-> [RefreshInterval |-> param.RefreshInterval,
                    EnableDebug |-> param.EnableDebug],
        err |-> NoError]

\* part_000:326-349: the configuration after the call, and the error returned.
parseConfig(cfg, param) ==
  IF param.t = "badbase64"
  THEN [config |-> cfg, err |-> Errorf("failed to decode config: %w", "", 0, "illegal base64 data")]
  ELSE IF param.t = "badjson"
  THEN [config |-> cfg, err |-> Errorf("failed to unmarshal config: %w", "", 0, "invalid character")]
  ELSE [config |->
          [RefreshInterval |->
             IF param.RefreshInterval < 100 \/ param.RefreshInterval > 10000
             THEN 1000 ELSE param.RefreshInterval,
           EnableDebug |-> param.EnableDebug],
        err |-> NoError]

\* ----------------------------------------------------------- handleToolCall

\* main.go:23-28
ServerName == "posix-system-mcp"
ServerVersion == "1.0.0"
Version == "1.0.0"

ToolListWithoutLoadAverage ==
  <<"get_system_info", "get_cpu_info", "get_memory_info", "get_disk_info",
    "get_network_info", "get_process_info">>

\* The tools of the tools/list catalogue, part_000:117-198.
ToolList ==
  <<"get_system_info", "get_cpu_info", "get_memory_info", "get_disk_info",
    "get_network_info", "get_process_info", "get_load_average">>

\* A JSON-RPC result: none (nil), or what initialize, tools/list or a tool
\* call produce.  text is fmt.Sprintf("%+v", result) of the collector's
\* result struct.
Sprintf(r) ==
  [Processes |-> r.Processes, Count |-> r.Count, Disks |-> r.Disks,
   Interfaces |-> r.Interfaces]
NoResult ==
  [kind |-> "nil", name |-> "", version |-> "", tools |-> <<>>,
   text |-> Sprintf(ZeroRet)]
InitializeResult ==
  [NoResult EXCEPT !.kind = "initialize", !.name = ServerName, !.version = Version]
ToolsListResult == [NoResult EXCEPT !.kind = "tools", !.tools = ToolList]
Content(r) == [NoResult EXCEPT !.kind = "content", !.text = Sprintf(r)]

\* What handleToolCall returns (result, err), with the collector it invoked
\* and what that returned.
ToolCallOutcome(c, r) == [result |-> Content(r), err |-> r.err, call |-> c, ret |-> r]
ToolCallError(err) == [result |-> NoResult, err |-> err, call |-> NoCall, ret |-> ZeroRet]

\* var arguments map[string]interface{}, part_000:239-244: nil unless
\* params["arguments"] is an object; a nil map is never read.
Arguments(params) ==
  IF params.arguments.t = "object" THEN params.arguments ELSE NoArguments

\* part_000:256-268
ToolGetCPUInfo(o, a) ==
  ToolCallOutcome(
    [NoCall EXCEPT !.tool = "get_cpu_info", !.fn = "getCPUInfo",
                   !.perCPU = AsBool(a.per_cpu, FALSE),
                   !.intervalMs = AsInt(a.interval_ms, 1000)],
    getCPUInfo(o, AsBool(a.per_cpu, FALSE), AsInt(a.interval_ms, 1000)))

\* part_000:274-282
ToolGetDiskInfo(o, a) ==
  ToolCallOutcome(
    [NoCall EXCEPT !.tool = "get_disk_info", !.fn = "getDiskInfo", !.path = AsString(a.path, "")],
    getDiskInfo(o, AsString(a.path, "")))

\* part_000:284-292
ToolGetNetworkInfo(o, a) ==
  ToolCallOutcome(
    [NoCall EXCEPT !.tool = "get_network_info", !.fn = "getNetworkInfo", !.iface = AsString(a.interface, "")],
    getNetworkInfo(o, AsString(a.interface, "")))

ToolGetProcessInfoDefaultTwenty(o, a) ==
  ToolCallOutcome(
    [NoCall EXCEPT !.tool = "get_process_info", !.fn = "getProcessInfo",
                   !.pid = AsInt(a.pid, 0),
                   !.name = AsChars(a.name, <<>>),
                   !.limit = AsInt(a.limit, 20),
                   !.sortBy = AsChars(a.sort_by, <<>>)],
    getProcessInfo(o, AsInt(a.pid, 0), AsChars(a.name, <<>>),
                   AsInt(a.limit, 20), AsChars(a.sort_by, <<>>)))

\* part_000:294-314
ToolGetProcessInfo(o, a) ==
  ToolCallOutcome(
    [NoCall EXCEPT !.tool = "get_process_info", !.fn = "getProcessInfo",
                   !.pid = AsInt(a.pid, 0),
                   !.name = AsChars(a.name, <<>>),
                   !.limit = AsInt(a.limit, 10),
                   !.sortBy = AsChars(a.sort_by, <<>>)],
    getProcessInfo(o, AsInt(a.pid, 0), AsChars(a.name, <<>>),
                   AsInt(a.limit, 10), AsChars(a.sort_by, <<>>)))

UnknownToolUnnamed(toolName) ==
  ToolCallError(Errorf("unknown tool", "", 0, ""))

\* default: return nil, fmt.Errorf("unknown tool: %s", toolName)
UnknownTool(toolName) ==
  ToolCallError(Errorf("unknown tool: %s", toolName, 0, ""))

\* part_000:228-323
handleToolCall(o, params) ==
  IF params.t # "object"
  THEN ToolCallError(Errorf("invalid params format", "", 0, ""))
  ELSE IF params.name.t # "str"
  THEN ToolCallError(Errorf("missing tool name", "", 0, ""))
  ELSE IF params.name.s = "get_system_info"
  THEN ToolCallOutcome([NoCall EXCEPT !.tool = "get_system_info", !.fn = "getSystemInfo"],
                       getSystemInfo(o))
  ELSE IF params.name.s = "get_cpu_info"
  THEN ToolGetCPUInfo(o, Arguments(params))
  ELSE IF params.name.s = "get_memory_info"
  THEN ToolCallOutcome([NoCall EXCEPT !.tool = "get_memory_info", !.fn = "getMemoryInfo"],
                       getMemoryInfo(o))
  ELSE IF params.name.s = "get_disk_info"
  THEN ToolGetDiskInfo(o, Arguments(params))
  ELSE IF params.name.s = "get_network_info"
  THEN ToolGetNetworkInfo(o, Arguments(params))
  ELSE IF params.name.s = "get_process_info"
  THEN ToolGetProcessInfo(o, Arguments(params))
  ELSE IF params.name.s = "get_load_average"
  THEN ToolCallOutcome([NoCall EXCEPT !.tool = "get_load_average", !.fn = "getLoadAverage"],
                       getLoadAverage(o))
  ELSE UnknownTool(params.name.s)

\* --------------------------------------------------------- handleMCPRequest

\* The request body: unreadable, not JSON of an MCPRequest (no JSON at all,
\* an array, a method that is no string, ...), or an MCPRequest (the JSON
\* null decodes to the zero request).
Body(id, rpc, params) == [kind |-> "json", id |-> id, rpc |-> rpc, params |-> params]
UnreadableBody == [Body(IdAbsent, "", NoParams) EXCEPT !.kind = "unreadable"]
InvalidBody == [Body(IdAbsent, "", NoParams) EXCEPT !.kind = "invalid"]

\* A request to the path /mcp, which StartHTTPServer routes to ServeHTTP.
HTTPRequest(method, configParam, body) ==
  [path |-> "/mcp", method |-> method, config |-> configParam, body |-> body]

\* A request to the path /health; its handler reads no body.
HealthRequest(method, configParam) ==
  [HTTPRequest(method, configParam, UnreadableBody) EXCEPT !.path = "/health"]

NoRequest == HTTPRequest("", NoConfigParam, UnreadableBody)

NoErrorObject == [code |-> 0, message |-> NoError]

\* What is written to the client: the status, whether the CORS headers of
\* part_000:51-55 are set, and the body: none, plain text (http.Error), or an
\* encoded MCPResponse, whose result and error fields are left out when nil
\* (omitempty, part_000:37-38).
NoResponse ==
  [status |-> 0, cors |-> FALSE, body |-> "none", text |-> "",
   jsonrpc |-> "", id |-> IdAbsent,
   hasResult |-> FALSE, result |-> NoResult,
   hasError |-> FALSE, error |-> NoErrorObject]

HTTPErrorNotWritten(text, status) == NoResponse

HTTPErrorAlwaysBadRequest(text, status) ==
  [NoResponse EXCEPT !.status = 400, !.cors = TRUE, !.body = "text", !.text = text]

\* http.Error(w, text, status)
HTTPError(text, status) ==
  [NoResponse EXCEPT !.status = status, !.cors = TRUE, !.body = "text", !.text = text]

MCPResponseKeepsResult(id, result, mcpError) ==
  [NoResponse EXCEPT
     !.status = 200, !.cors = TRUE, !.body = "json",
     !.jsonrpc = "2.0",
     !.id = EncodeId(DecodeId(id)),
     !.hasError = ~mcpError.nil,
     !.error = IF ~mcpError.nil THEN [code |-> -32601, message |-> mcpError]
               ELSE NoErrorObject,
     !.hasResult = result.kind # "nil",
     !.result = result]

MCPResponseInvalidParamsCode(id, result, mcpError) ==
  [NoResponse EXCEPT
     !.status = 200, !.cors = TRUE, !.body = "json",
     !.jsonrpc = "2.0",
     !.id = EncodeId(DecodeId(id)),
     !.hasError = ~mcpError.nil,
     !.error = IF mcpError.nil THEN NoErrorObject
               ELSE IF mcpError.format \in {"invalid params format", "missing tool name"}
               THEN [code |-> -32602, message |-> mcpError]
               ELSE [code |-> -32601, message |-> mcpError],
     !.hasResult = mcpError.nil /\ result.kind # "nil",
     !.result = IF mcpError.nil THEN result ELSE NoResult]

\* part_000:208-224
MCPResponse(id, result, mcpError) ==
  [NoResponse EXCEPT
     !.status = 200, !.cors = TRUE, !.body = "json",
     !.jsonrpc = "2.0",
     !.id = EncodeId(DecodeId(id)),
     !.hasError = ~mcpError.nil,
     !.error = IF ~mcpError.nil THEN [code |-> -32601, message |-> mcpError]
               ELSE NoErrorObject,
     !.hasResult = mcpError.nil /\ result.kind # "nil",
     !.result = IF mcpError.nil THEN result ELSE NoResult]

UnknownMethodIgnored(method) == ToolCallError(NoError)

\* default: mcpError = fmt.Errorf("unknown method: %s", req.Method)
UnknownMethod(method) ==
  ToolCallError(Errorf("unknown method: %s", method, 0, ""))

\* The switch of part_000:102-206, as a handleToolCall outcome.
MethodOutcome(o, body) ==
  IF body.rpc = "initialize"
  THEN [ToolCallError(NoError) EXCEPT !.result = InitializeResult]
  ELSE IF body.rpc = "tools/list"
  THEN [ToolCallError(NoError) EXCEPT !.result = ToolsListResult]
  ELSE IF body.rpc = "tools/call"
  THEN handleToolCall(o, body.params)
  ELSE UnknownMethod(body.rpc)

Handled(cfg, resp, out) ==
  [config |-> cfg, resp |-> resp, call |-> out.call, ret |-> out.ret]

Respond(cfg, body, out) ==
  Handled(cfg, MCPResponse(body.id, out.result, out.err), out)

\* part_000:75-225
handleMCPRequest(cfg, r, o) ==
  IF r.method # "POST"
  THEN Handled(cfg, HTTPError("Method not allowed", 405), ToolCallError(NoError))
  ELSE IF r.body.kind = "unreadable"
  THEN Handled(cfg, HTTPError("Failed to read request body", 400), ToolCallError(NoError))
  ELSE IF r.body.kind = "invalid"
  THEN Handled(cfg, HTTPError("Invalid JSON", 400), ToolCallError(NoError))
  ELSE Respond(cfg, r.body, MethodOutcome(o, r.body))

\* part_000:49-72: the configuration, the response and the collector call
\* after the request r is served with the OS reporting o.
PreflightNoHeaders == [NoResponse EXCEPT !.status = 200]

\* part_000:51-61: the reply to an OPTIONS request.
Preflight == [NoResponse EXCEPT !.status = 200, !.cors = TRUE]

\* The anonymous /health handler of StartHTTPServer, part_000:364-372: it
\* sets Content-Type only and writes status, service and version.
HealthResponse ==
  [NoResponse EXCEPT
     !.status = 200, !.body = "health",
     !.result = [NoResult EXCEPT !.kind = "health", !.name = ServerName,
                                 !.version = Version, !.tools = <<"healthy">>]]

ServeHTTPOutcomeConfigOnPost(cfg, r, o) ==
  IF r.method = "OPTIONS"
  THEN Handled(cfg, Preflight, ToolCallError(NoError))
  ELSE IF r.config.t # "absent" /\ r.method = "POST"
  THEN handleMCPRequest(parseConfig(cfg, r.config).config, r, o)
  ELSE handleMCPRequest(cfg, r, o)

ServeHTTPOutcome(cfg, r, o) ==
  IF r.method = "OPTIONS"
  THEN Handled(cfg, Preflight, ToolCallError(NoError))
  ELSE IF r.config.t # "absent"
  THEN handleMCPRequest(parseConfig(cfg, r.config).config, r, o)
  ELSE handleMCPRequest(cfg, r, o)

\* --------------------------------------------------------- the OS snapshots

\* What the OS reports during one collector call.
QuietOS ==
  [procs |-> <<>>, procsErr |-> FALSE,
   parts |-> <<>>, partsErr |-> FALSE, usageOK |-> {},
   stats |-> <<>>, netErr |-> FALSE,
   percentErr |-> FALSE, cpuInfoErr |-> FALSE,
   hostErr |-> FALSE, vmErr |-> FALSE, swapErr |-> FALSE, loadErr |-> FALSE]

Proc(pid, name, cpu, mem, gone) ==
  [Pid |-> pid, Name |-> name, CPU |-> cpu, Mem |-> mem, gone |-> gone]

\* Four processes: two tie on CPU, two tie on memory, the names differ in
\* case and in where "sh" occurs, and one vanishes while it is queried.
Universe ==
  { Proc(7, <<"s","h">>, 2, 1, FALSE),
    Proc(3, <<"S","h">>, 2, 3, FALSE),
    Proc(5, <<"b","a","s","h">>, 0, 3, FALSE),
    Proc(9, <<"g","o">>, 4, 2, TRUE) }

\* Every sequence of distinct members of S of length at most n.
RECURSIVE Arrangements(_, _)
Arrangements(S, n) ==
  IF n = 0 THEN {<<>>}
  ELSE LET shorter == Arrangements(S, n - 1)
           longest == {t \in shorter : Len(t) = n - 1}
       IN  shorter \cup
           {Append(p[1], p[2]) : p \in {q \in longest \X S : q[2] \notin Range(q[1])}}

NamePattern == << <<"s","h">>, <<"g","o">>, <<"S","h">> >>

\* A generated table of n live processes: PIDs descending, names, CPU and
\* memory cycling with different periods.
BigTable(n) ==
  [i \in 1..n |-> Proc(n + 1 - i, NamePattern[(i % 3) + 1], (i * 3) % 5, (i * 2) % 7, FALSE)]

ProcTables == Arrangements(Universe, MaxTable) \cup {BigTable(MidProcs)}

ProcOS ==
  {[QuietOS EXCEPT !.procs = t] : t \in ProcTables}
  \cup {[QuietOS EXCEPT !.procsErr = TRUE]}

ManyProcOS == [QuietOS EXCEPT !.procs = BigTable(ManyProcs)]

Part(device, mountpoint) == [Device |-> device, Mountpoint |-> mountpoint, Fstype |-> "fs"]

PartUniverse == {Part("/dev/sda1", "/"), Part("/dev/sdb1", "/data"), Part("tmpfs", "/run")}

Paths == {"/", "/data", "/run", "/nowhere"}

DiskOS ==
  {[QuietOS EXCEPT !.parts = t, !.usageOK = ok] :
      t \in Arrangements(PartUniverse, MaxTable), ok \in SUBSET {"/", "/data", "/run"}}
  \cup {[QuietOS EXCEPT !.partsErr = TRUE, !.usageOK = ok] : ok \in {{}, {"/"}}}

Stat(name, sent) == [Name |-> name, BytesSent |-> sent]

StatUniverse == {Stat("lo", 0), Stat("eth0", 5), Stat("Eth0", 7)}

NetOS ==
  {[QuietOS EXCEPT !.stats = t] : t \in Arrangements(StatUniverse, MaxTable)}
  \cup {[QuietOS EXCEPT !.netErr = TRUE]}

CpuOS ==
  {[QuietOS EXCEPT !.percentErr = a, !.cpuInfoErr = b] : a \in BOOLEAN, b \in BOOLEAN}

HostOS == {[QuietOS EXCEPT !.hostErr = a] : a \in BOOLEAN}

MemOS ==
  {[QuietOS EXCEPT !.vmErr = a, !.swapErr = b] : a \in BOOLEAN, b \in BOOLEAN}

LoadOS == {[QuietOS EXCEPT !.loadErr = a] : a \in BOOLEAN}

\* ------------------------------------------------------- the inputs of a call

PidInputs == {-1, 0, 3, 8}
LimitInputs == {-5, 0, 1, 2, DefaultLimit, MaxLimit, MaxLimit + 1, 300}
NameFilters == {<<>>, <<"s","H">>, <<"z">>}
SortKeys ==
  {<<>>, kCpu, kMemory, kPid, kName, <<"P","I","D">>, <<"s","i","z","e">>}
\* The parameters of one getProcessInfo call: every combination on the
\* enumerated tables, and the limits around the upper bound on the table of
\* ManyProcs processes.
ProcessCalls ==
  [o : ProcOS, pid : PidInputs, name : NameFilters, limit : LimitInputs,
   sortBy : SortKeys]
  \cup [o : {ManyProcOS}, pid : {0}, name : {<<>>},
        limit : {MaxLimit, MaxLimit + 1}, sortBy : {kCpu, kName}]
  \cup [o : {ManyProcOS}, pid : {0}, name : {<<"s","H">>},
        limit : {300}, sortBy : {kPid}]

IntervalInputs ==
  (-2..(MinIntervalMs + 2)) \cup {DefaultIntervalMs}
  \cup ((MaxIntervalMs - 2)..(MaxIntervalMs + 2)) \cup {20000, 1000000}
IfaceInputs == {"", "lo", "eth0", "ETH0", "wlan0"}

\* ------------------------------------------------- the inputs of a request

\* Ids: absent, null, strings, and integers up to, at and just above 2^53.
IdInputs ==
  { IdAbsent, IdNull, IdStr("a"), IdStr(""), IdNum(0, 0), IdNum(0, 7),
    IdNum(2^23 - 1, Limb - 1), IdNum(2^23, 0), IdNum(2^23, 1),
    IdNum(2^23, 3), IdNum(2^23, Limb - 1) }

ConfigInputs ==
  { NoConfigParam, BadBase64, BadJSON, ConfigParam(0, FALSE),
    ConfigParam(50, FALSE), ConfigParam(100, FALSE), ConfigParam(500, TRUE),
    ConfigParam(10000, FALSE), ConfigParam(20000, TRUE),
    ConfigParam(-5, TRUE), ConfigParam(99, FALSE), ConfigParam(10001, FALSE) }

MethodInputs ==
  {"initialize", "tools/list", "tools/call", "", "Initialize", "resources/list"}

ParamsInputs ==
  { NoParams, OtherParams,
    CallParams(JAbsent, EmptyArguments),
    CallParams(JNum(1), EmptyArguments),
    CallParams(JOther, EmptyArguments),
    CallParams(JStr(""), EmptyArguments),
    CallParams(JStr("bogus"), EmptyArguments),
    CallParams(JStr("GET_CPU_INFO"), NoArguments),
    CallParams(JStr("get_load_average"), OtherArguments) }

\* A request together with what the OS reports while it is served.
Served(r, o) == [r |-> r, o |-> o]

\* Requests of every HTTP method, configuration parameter and kind of body.
FramingRequests ==
  { Served(HTTPRequest(m, c, b), QuietOS) :
      m \in {"POST", "GET", "OPTIONS"}, c \in ConfigInputs,
      b \in { UnreadableBody, InvalidBody,
              Body(IdNum(0, 7), "initialize", NoParams),
              Body(IdAbsent, "resources/list", NoParams),
              Body(IdStr("a"), "tools/call",
                   CallParams(JStr("get_load_average"), EmptyArguments)) } }

\* POSTed JSON-RPC requests of every id, method and shape of params.
RPCRequests ==
  { Served(HTTPRequest("POST", c, Body(i, m, p)), o) :
      c \in {NoConfigParam, BadBase64}, i \in IdInputs, m \in MethodInputs,
      p \in ParamsInputs, o \in LoadOS }

\* The argument bags of the tools that take arguments, each with an OS.
CPUArguments ==
  { [EmptyArguments EXCEPT !.per_cpu = a, !.interval_ms = b] :
      a \in {JAbsent, JBool(TRUE), JStr("yes")},
      b \in {JAbsent, JNum(0), JNum(50), JNum(5000), JNum(20000), JStr("1s")} }

DiskArguments ==
  { [EmptyArguments EXCEPT !.path = a] :
      a \in {JAbsent, JStr(""), JStr("/"), JStr("/nowhere"), JNum(1)} }

HTTPDiskOS ==
  { [QuietOS EXCEPT !.parts = <<Part("/dev/sda1", "/"), Part("tmpfs", "/run")>>,
                    !.usageOK = {"/", "/run"}],
    [QuietOS EXCEPT !.parts = <<Part("/dev/sda1", "/"), Part("tmpfs", "/run")>>,
                    !.usageOK = {"/run"}],
    [QuietOS EXCEPT !.partsErr = TRUE, !.usageOK = {"/"}] }

NetworkArguments ==
  { [EmptyArguments EXCEPT !.interface = a] :
      a \in {JAbsent, JStr("eth0"), JStr("ETH0"), JBool(TRUE)} }

HTTPNetOS ==
  { [QuietOS EXCEPT !.stats = <<Stat("lo", 0), Stat("eth0", 5), Stat("Eth0", 7)>>],
    [QuietOS EXCEPT !.netErr = TRUE] }

ProcessArguments ==
  { [EmptyArguments EXCEPT !.pid = a, !.name = b, !.limit = c, !.sort_by = d] :
      a \in {JAbsent, JNum(3), JNum(8), JNum(9), JStr("3")},
      b \in {JAbsent, JChars(<<"s","H">>), JNum(1)},
      c \in {JAbsent, JNum(0), JNum(2), JNum(MaxLimit + 1), JStr("2")},
      d \in {JAbsent, JChars(kName), JChars(<<"P","I","D">>), JBool(TRUE)} }

HTTPProcOS ==
  { [QuietOS EXCEPT !.procs =
       << Proc(7, <<"s","h">>, 2, 1, FALSE), Proc(9, <<"g","o">>, 4, 2, TRUE),
          Proc(3, <<"S","h">>, 2, 3, FALSE), Proc(5, <<"b","a","s","h">>, 0, 3, FALSE) >>],
    [QuietOS EXCEPT !.procs = BigTable(DefaultLimit + 2)],
    [QuietOS EXCEPT !.procsErr = TRUE] }

\* Numbers that are no int: with a fraction, negative, or beyond every int.
OddNumbers ==
  {JHalf(0), JHalf(2), JHalf(150), JHalf(-1), JNum(-4)}
  \cup {JHuge(n) : n \in OverflowOutcomes}

\* An argument bag with a field no tool has.
ExtraArguments == [EmptyArguments EXCEPT !.verbose = JBool(TRUE)]

OddCPUArguments ==
  { [ExtraArguments EXCEPT !.interval_ms = b] : b \in OddNumbers }

OddProcessArguments ==
  { [ExtraArguments EXCEPT !.pid = a, !.limit = c] :
      a \in OddNumbers \cup {JAbsent}, c \in OddNumbers \cup {JAbsent} }

\* name, arguments and OS of the tools/call requests that reach a collector.
ToolCallInputs ==
  ({"get_cpu_info"} \X (CPUArguments \cup OddCPUArguments \cup {NoArguments, OtherArguments}) \X CpuOS)
  \cup ({"get_disk_info"} \X (DiskArguments \cup {NoArguments, OtherArguments}) \X HTTPDiskOS)
  \cup ({"get_network_info"} \X (NetworkArguments \cup {NoArguments, OtherArguments}) \X HTTPNetOS)
  \cup ({"get_process_info"} \X (ProcessArguments \cup OddProcessArguments \cup {NoArguments, OtherArguments}) \X HTTPProcOS)
  \cup ({"get_system_info"} \X {NoArguments, EmptyArguments, ExtraArguments} \X HostOS)
  \cup ({"get_memory_info"} \X {NoArguments, EmptyArguments} \X MemOS)
  \cup ({"get_load_average"} \X {NoArguments, EmptyArguments} \X LoadOS)

ToolCallRequests ==
  { Served(HTTPRequest("POST", NoConfigParam,
                       Body(i, "tools/call", CallParams(JStr(t[1]), t[2]))), t[3]) :
      i \in {IdStr("a"), IdNum(2^23, 1)}, t \in ToolCallInputs }

HTTPRequests == FramingRequests \cup RPCRequests \cup ToolCallRequests

\* Requests to /health, of several methods, with and without a config
\* parameter.
HealthRequests ==
  { HealthRequest(m, c) :
      m \in {"GET", "POST", "OPTIONS"},
      c \in {NoConfigParam, BadBase64, ConfigParam(500, TRUE)} }

\* -------------------------------------------------------------------- state

VARIABLES
  pc,        \* "idle": waiting for a request; "replied": a handler has just returned
  mode,      \* "stdio" or "http": the transport main() started (main.go:176-198)
  config,    \* HTTPServer.config
  call,      \* the collector invoked by the last request, with its parameters
  os,        \* what the OS reported during that invocation
  ret,       \* what the collector returned
  toolRes,   \* stdio: what the tool handler returned for the last request
  httpReq,   \* http: the last request
  httpResp,  \* http: what was written to the client for it
  heap,      \* concurrent requests: the ServerConfig objects allocated so far
  hconfig,   \* concurrent requests: the stores to HTTPServer.config, in order
  gor        \* concurrent requests: the goroutine serving each request

seqVars == <<pc, mode, config, call, os, ret, toolRes, httpReq, httpResp>>
concVars == <<heap, hconfig, gor>>
vars == <<pc, mode, config, call, os, ret, toolRes, httpReq, httpResp, heap, hconfig, gor>>

\* What a stdio tool handler returns: the text content, whether the
\* structured output is present, and the error.
NoToolRes == [text |-> "", errText |-> NoError, hasOut |-> FALSE, err |-> NoError]

\* textErr(err), nil, err / textOK(msg), out, nil   (main.go:209-213, 289-294)
ToolResult(r, msg) ==
  IF ~r.err.nil
  THEN [text |-> "Error: ", errText |-> r.err, hasOut |-> FALSE, err |-> r.err]
  ELSE [text |-> msg, errText |-> NoError, hasOut |-> TRUE, err |-> NoError]

\* NewHTTPServer, part_000:42-46
NewHTTPServer == [RefreshInterval |-> 1000, EnableDebug |-> FALSE]

\* A ServerConfig object on the heap: for each field, the values stored to
\* it so far, the oldest first.
NewObject(c) ==
  [RefreshInterval |-> <<c.RefreshInterval>>, EnableDebug |-> <<c.EnableDebug>>]

\* var config ServerConfig (part_000:332): a fresh object of zero fields.
ZeroObject == NewObject([RefreshInterval |-> 0, EnableDebug |-> FALSE])

\* The goroutines net/http starts, one per request being served.
Goroutines == 1..MaxGoroutines

\* A goroutine: where it is in ServeHTTP, the config parameter of its
\* request and how far the request gets (kind: "rejected" before the body is
\* decoded, "rpc" up to the method switch, "call" into handleToolCall past
\* the tool name), the object it allocated (0: none), the position of its
\* own store to h.config (0: none), the check of h.config.EnableDebug it is
\* making (site), the pointer it loaded from h.config, what it last read
\* through that pointer, and every such read of the request, in order.
NoGoroutine ==
  [at |-> "idle", req |-> NoConfigParam, kind |-> "rejected", obj |-> 0,
   stored |-> 0, site |-> "", loaded |-> 0,
   seen |-> [read |-> FALSE, obj |-> 0, EnableDebug |-> FALSE],
   reads |-> <<>>]

Init ==
  /\ pc = "idle"
  /\ mode \in {"stdio", "http"}
  /\ config = NewHTTPServer
  /\ call = NoCall
  /\ os = QuietOS
  /\ ret = ZeroRet
  /\ toolRes = NoToolRes
  /\ httpReq = NoRequest
  /\ httpResp = NoResponse
  /\ heap = <<NewObject(NewHTTPServer)>>
  /\ hconfig = <<1>>
  /\ gor = [g \in Goroutines |-> NoGoroutine]

\* --------------------------------------- the stdio tool handlers (registerTools)

\* registerTools, main.go:203-287: the names given to mcp.AddTool, in the
\* order of registration.  The server calls a handler only under the name
\* it was registered with.
registerTools ==
  <<"get_system_info", "get_cpu_info", "get_memory_info", "get_disk_info",
    "get_network_info", "get_process_info", "get_load_average">>

\* The typed arguments handed to a stdio handler: the Args struct of its
\* tool, main.go:138-162 (here one record with the fields of all of them).
ZeroArgs ==
  [PerCPU |-> FALSE, IntervalMs |-> 0, Path |-> "", Interface |-> "",
   PID |-> 0, Name |-> <<>>, Limit |-> 0, SortBy |-> <<>>]

\* json.Unmarshal of an argument bag into the Args struct, for a bag whose
\* fields are of the declared types (bool, integer, string): a field left
\* out keeps its zero value.
UnmarshalArgs(a) ==
  [PerCPU |-> AsBool(a.per_cpu, FALSE),
   IntervalMs |-> AsInt(a.interval_ms, 0),
   Path |-> AsString(a.path, ""),
   Interface |-> AsString(a.interface, ""),
   PID |-> AsInt(a.pid, 0),
   Name |-> AsChars(a.name, <<>>),
   Limit |-> AsInt(a.limit, 0),
   SortBy |-> AsChars(a.sort_by, <<>>)]

\* The collector call made by the handler registered under tool, with the
\* typed arguments a: main.go:209, 221, 233, 245, 257, 269, 281.
StdioCall(tool, a) ==
  IF tool = "get_system_info"
  THEN [NoCall EXCEPT !.tool = tool, !.fn = "getSystemInfo"]
  ELSE IF tool = "get_cpu_info"
  THEN [NoCall EXCEPT !.tool = tool, !.fn = "getCPUInfo", !.perCPU = a.PerCPU,
                      !.intervalMs = a.IntervalMs]
  ELSE IF tool = "get_memory_info"
  THEN [NoCall EXCEPT !.tool = tool, !.fn = "getMemoryInfo"]
  ELSE IF tool = "get_disk_info"
  THEN [NoCall EXCEPT !.tool = tool, !.fn = "getDiskInfo", !.path = a.Path]
  ELSE IF tool = "get_network_info"
  THEN [NoCall EXCEPT !.tool = tool, !.fn = "getNetworkInfo", !.iface = a.Interface]
  ELSE IF tool = "get_process_info"
  THEN [NoCall EXCEPT !.tool = tool, !.fn = "getProcessInfo", !.pid = a.PID,
                      !.name = a.Name, !.limit = a.Limit, !.sortBy = a.SortBy]
  ELSE [NoCall EXCEPT !.tool = tool, !.fn = "getLoadAverage"]


\* main.go:205-214
StdioGetSystemInfo ==
  /\ pc = "idle"
  /\ mode = "stdio"
  /\ "get_system_info" \in Range(registerTools)
  /\ pc' = "replied"
  /\ \E o \in HostOS :
       \E r \in {getSystemInfo(o)} :
           /\ call' = StdioCall("get_system_info", ZeroArgs)
           /\ os' = o
           /\ ret' = r
           /\ toolRes' = ToolResult(r, "System information retrieved")
  /\ UNCHANGED <<mode, config, httpReq, httpResp, concVars>>

\* main.go:217-226
StdioGetCPUInfo ==
  /\ pc = "idle"
  /\ mode = "stdio"
  /\ "get_cpu_info" \in Range(registerTools)
  /\ pc' = "replied"
  /\ \E o \in CpuOS, perCPU \in BOOLEAN, intervalMs \in IntervalInputs :
       \E r \in {getCPUInfo(o, perCPU, intervalMs)} :
           /\ call' = StdioCall("get_cpu_info",
                                [ZeroArgs EXCEPT !.PerCPU = perCPU,
                                                 !.IntervalMs = intervalMs])
           /\ os' = o
           /\ ret' = r
           /\ toolRes' = ToolResult(r, "CPU information retrieved")
  /\ UNCHANGED <<mode, config, httpReq, httpResp, concVars>>

\* main.go:229-238
StdioGetMemoryInfo ==
  /\ pc = "idle"
  /\ mode = "stdio"
  /\ "get_memory_info" \in Range(registerTools)
  /\ pc' = "replied"
  /\ \E o \in MemOS :
       \E r \in {getMemoryInfo(o)} :
           /\ call' = StdioCall("get_memory_info", ZeroArgs)
           /\ os' = o
           /\ ret' = r
           /\ toolRes' = ToolResult(r, "Memory information retrieved")
  /\ UNCHANGED <<mode, config, httpReq, httpResp, concVars>>

\* main.go:241-250
StdioGetDiskInfo ==
  /\ pc = "idle"
  /\ mode = "stdio"
  /\ "get_disk_info" \in Range(registerTools)
  /\ pc' = "replied"
  /\ \E o \in DiskOS, path \in Paths \cup {""} :
       \E r \in {getDiskInfo(o, path)} :
           /\ call' = StdioCall("get_disk_info", [ZeroArgs EXCEPT !.Path = path])
           /\ os' = o
           /\ ret' = r
           /\ toolRes' = ToolResult(r, "Disk information retrieved")
  /\ UNCHANGED <<mode, config, httpReq, httpResp, concVars>>

\* main.go:253-262
StdioGetNetworkInfo ==
  /\ pc = "idle"
  /\ mode = "stdio"
  /\ "get_network_info" \in Range(registerTools)
  /\ pc' = "replied"
  /\ \E o \in NetOS, iface \in IfaceInputs :
       \E r \in {getNetworkInfo(o, iface)} :
           /\ call' = StdioCall("get_network_info",
                                [ZeroArgs EXCEPT !.Interface = iface])
           /\ os' = o
           /\ ret' = r
           /\ toolRes' = ToolResult(r, "Network information retrieved")
  /\ UNCHANGED <<mode, config, httpReq, httpResp, concVars>>

\* main.go:265-274
StdioGetProcessInfo ==
  /\ pc = "idle"
  /\ mode = "stdio"
  /\ "get_process_info" \in Range(registerTools)
  /\ pc' = "replied"
  /\ \E a \in ProcessCalls :
       \E r \in {getProcessInfo(a.o, a.pid, a.name, a.limit, a.sortBy)} :
           /\ call' = StdioCall("get_process_info",
                                [ZeroArgs EXCEPT !.PID = a.pid, !.Name = a.name,
                                                 !.Limit = a.limit,
                                                 !.SortBy = a.sortBy])
           /\ os' = a.o
           /\ ret' = r
           /\ toolRes' = ToolResult(r, "Process information retrieved")
  /\ UNCHANGED <<mode, config, httpReq, httpResp, concVars>>

\* main.go:277-286
StdioGetLoadAverage ==
  /\ pc = "idle"
  /\ mode = "stdio"
  /\ "get_load_average" \in Range(registerTools)
  /\ pc' = "replied"
  /\ \E o \in LoadOS :
       \E r \in {getLoadAverage(o)} :
           /\ call' = StdioCall("get_load_average", ZeroArgs)
           /\ os' = o
           /\ ret' = r
           /\ toolRes' = ToolResult(r, "Load average retrieved")
  /\ UNCHANGED <<mode, config, httpReq, httpResp, concVars>>

\* The reply has been written and the handler's locals are gone; nothing but
\* HTTPServer.config outlives a request.
Return ==
  /\ pc = "replied"
  /\ pc' = "idle"
  /\ call' = NoCall
  /\ os' = QuietOS
  /\ ret' = ZeroRet
  /\ toolRes' = NoToolRes
  /\ httpReq' = NoRequest
  /\ httpResp' = NoResponse
  /\ UNCHANGED <<mode, config, concVars>>

\* ---------------------------------------------------- the HTTP handler

\* HTTPServer.ServeHTTP, part_000:49-72, with parseConfig, handleMCPRequest
\* and handleToolCall, for one request.
ServeHTTP ==
  /\ pc = "idle"
  /\ mode = "http"
  /\ pc' = "replied"
  /\ \E q \in HTTPRequests :
       \E out \in {ServeHTTPOutcome(config, q.r, q.o)} :
           /\ httpReq' = q.r
           /\ os' = q.o
           /\ config' = out.config
           /\ httpResp' = out.resp
           /\ call' = out.call
           /\ ret' = out.ret
  /\ toolRes' = NoToolRes
  /\ UNCHANGED <<mode, concVars>>

\* The /health handler, part_000:364-372, for one request.
HealthCheck ==
  /\ pc = "idle"
  /\ mode = "http"
  /\ pc' = "replied"
  /\ \E r \in HealthRequests : httpReq' = r
  /\ httpResp' = HealthResponse
  /\ call' = NoCall
  /\ os' = QuietOS
  /\ ret' = ZeroRet
  /\ toolRes' = NoToolRes
  /\ UNCHANGED <<mode, config, concVars>>

Next ==
  \/ StdioGetSystemInfo
  \/ StdioGetCPUInfo
  \/ StdioGetMemoryInfo
  \/ StdioGetDiskInfo
  \/ StdioGetNetworkInfo
  \/ StdioGetProcessInfo
  \/ StdioGetLoadAverage
  \/ ServeHTTP
  \/ HealthCheck
  \/ Return

Spec == Init /\ [][Next]_vars

\* ------------------------------------------------------ concurrent requests

\* net/http serves every request on a goroutine of its own, and the code
\* takes no lock and uses no atomic: h.config is stored by parseConfig
\* (part_000:342) and loaded by parseConfig (part_000:344) and ServeHTTP
\* (part_000:65), and the fields of the object it points to are stored by
\* json.Unmarshal and the validation and loaded through the pointer.  The
\* steps below are those loads and stores, one at a time.

\* What a load of h.config may return: a store that is not older than the
\* goroutine's own last store (stored: its position, 0 when it made none).
\* Stores of other goroutines are not ordered with the load.
VisiblePointers(stored, stores) ==
  {stores[i] : i \in (IF stored = 0 THEN 1 ELSE stored)..Len(stores)}

\* What a load of a field of object k may return.  The goroutine's own
\* object, and the object made before the server started, show their last
\* store.  A store to another goroutine's object is not ordered with the
\* load, which may return any value the field has held, the zero value of
\* the allocation included.
VisibleValues(own, k, stores) ==
  IF k = 1 \/ k = own THEN {stores[Len(stores)]} ELSE Range(stores)

\* The config parameters of concurrent requests.
ConcurrentConfigs ==
  {NoConfigParam, BadJSON, ConfigParam(50, TRUE), ConfigParam(500, FALSE)}

\* How far a concurrent request gets.
RequestKinds == {"rejected", "rpc", "call"}

\* A request arrives and ServeHTTP starts on a new goroutine.
AcceptRequest(g) ==
  /\ gor[g].at = "idle"
  /\ \E c \in ConcurrentConfigs, k \in RequestKinds :
       gor' = [gor EXCEPT ![g] = [NoGoroutine EXCEPT !.at = "serve", !.req = c,
                                                      !.kind = k]]
  /\ UNCHANGED <<heap, hconfig, seqVars>>

\* ServeHTTP, part_000:64, and the decoding of parseConfig, part_000:327-335:
\* no parameter, a malformed one (an error: ServeHTTP goes on to load
\* h.config.EnableDebug), or a fresh ServerConfig to be filled.
DecodeConfig(g) ==
  /\ gor[g].at = "serve"
  /\ IF gor[g].req.t = "absent"
     THEN gor' = [gor EXCEPT ![g].at = "handle"] /\ UNCHANGED heap
     ELSE IF gor[g].req.t # "ok"
     THEN gor' = [gor EXCEPT ![g].at = "load", ![g].site = "ServeHTTP"] /\ UNCHANGED heap
     ELSE /\ heap' = Append(heap, ZeroObject)
          /\ gor' = [gor EXCEPT ![g].at = "unmarshal", ![g].obj = Len(heap) + 1]
  /\ UNCHANGED <<hconfig, seqVars>>

\* json.Unmarshal(decoded, &config), part_000:333: stores the decoded fields.
UnmarshalConfig(g) ==
  /\ gor[g].at = "unmarshal"
  /\ heap' = [heap EXCEPT
       ![gor[g].obj].RefreshInterval = Append(@, gor[g].req.RefreshInterval),
       ![gor[g].obj].EnableDebug = Append(@, gor[g].req.EnableDebug)]
  /\ gor' = [gor EXCEPT ![g].at = "validate"]
  /\ UNCHANGED <<hconfig, seqVars>>

\* part_000:338-340
ValidateConfig(g) ==
  /\ gor[g].at = "validate"
  /\ heap' =
       IF gor[g].req.RefreshInterval < 100 \/ gor[g].req.RefreshInterval > 10000
       THEN [heap EXCEPT ![gor[g].obj].RefreshInterval = Append(@, 1000)]
       ELSE heap
  /\ gor' = [gor EXCEPT ![g].at = "store"]
  /\ UNCHANGED <<hconfig, seqVars>>

\* h.config = &config, part_000:342
StoreConfig(g) ==
  /\ gor[g].at = "store"
  /\ hconfig' = Append(hconfig, gor[g].obj)
  /\ gor' = [gor EXCEPT ![g].at = "load", ![g].site = "parseConfig",
                         ![g].stored = Len(hconfig) + 1]
  /\ UNCHANGED <<heap, seqVars>>

\* The load of h.config in h.config.EnableDebug: part_000:344, part_000:65,
\* part_000:93 and part_000:246.
LoadConfig(g) ==
  /\ gor[g].at = "load"
  /\ \E k \in VisiblePointers(gor[g].stored, hconfig) :
       gor' = [gor EXCEPT ![g].at = "field", ![g].loaded = k]
  /\ UNCHANGED <<heap, hconfig, seqVars>>

\* Where a goroutine goes on after the check of h.config.EnableDebug at
\* site: from ServeHTTP and parseConfig into handleMCPRequest; from
\* handleMCPRequest into handleToolCall for a tools/call that names its
\* tool, and to the response otherwise; from handleToolCall to the response.
AfterCheck(site, kind) ==
  IF site \in {"ServeHTTP", "parseConfig"} THEN "handle"
  ELSE IF site = "handleMCPRequest" /\ kind = "call" THEN "toolcall"
  ELSE "done"

\* The load of the field in h.config.EnableDebug.
LoadEnableDebug(g) ==
  /\ gor[g].at = "field"
  /\ \E v \in VisibleValues(gor[g].obj, gor[g].loaded, heap[gor[g].loaded].EnableDebug) :
       gor' = [gor EXCEPT ![g].at = AfterCheck(gor[g].site, gor[g].kind),
                          ![g].seen = [read |-> TRUE, obj |-> gor[g].loaded,
                                       EnableDebug |-> v],
                          ![g].reads = Append(@, [site |-> gor[g].site,
                                                  obj |-> gor[g].loaded,
                                                  EnableDebug |-> v])]
  /\ UNCHANGED <<heap, hconfig, seqVars>>

\* h.handleMCPRequest(w, r), part_000:71-95: a request that is no POST, or
\* whose body cannot be read or decoded, is rejected; any other comes to the
\* check of h.config.EnableDebug at part_000:93.
HandleRequest(g) ==
  /\ gor[g].at = "handle"
  /\ gor' = IF gor[g].kind = "rejected"
            THEN [gor EXCEPT ![g].at = "done"]
            ELSE [gor EXCEPT ![g].at = "load", ![g].site = "handleMCPRequest"]
  /\ UNCHANGED <<heap, hconfig, seqVars>>

\* h.handleToolCall(ctx, req.Params), part_000:228-248, up to its check of
\* h.config.EnableDebug at part_000:246.
HandleToolCall(g) ==
  /\ gor[g].at = "toolcall"
  /\ gor' = [gor EXCEPT ![g].at = "load", ![g].site = "handleToolCall"]
  /\ UNCHANGED <<heap, hconfig, seqVars>>

ConcurrentInit ==
  /\ Init
  /\ mode = "http"

ConcurrentNext ==
  \E g \in Goroutines :
     \/ AcceptRequest(g)
     \/ DecodeConfig(g)
     \/ UnmarshalConfig(g)
     \/ ValidateConfig(g)
     \/ StoreConfig(g)
     \/ LoadConfig(g)
     \/ LoadEnableDebug(g)
     \/ HandleRequest(g)
     \/ HandleToolCall(g)

ConcurrentSpec == ConcurrentInit /\ [][ConcurrentNext]_vars

\* ------------------------------------------------------------------ claims

Replied(fn) == pc = "replied" /\ call.fn = fn

\* getProcessInfo returned from its list branch (pid <= 0).
ListMode == Replied("getProcessInfo") /\ call.pid <= 0

\* The effective limit as the claims state it.
ClaimedLimit(limit) ==
  IF limit <= 0 THEN 10 ELSE IF limit > 200 THEN 200 ELSE limit

\* C1: in list mode the number of records returned is at most the effective
\* limit (10 when limit <= 0, 200 when limit > 200, otherwise limit), hence at
\* most 200, and Count equals the number of records returned.
C1_CountWithinLimit ==
  ListMode =>
    /\ Len(ret.Processes) <= ClaimedLimit(call.limit)
    /\ Len(ret.Processes) <= 200
    /\ ret.Count = Len(ret.Processes)

\* More than 200 processes run, a limit above 200 is asked for, and exactly
\* 200 records come back.
C1_Witness ==
  /\ ListMode
  /\ call.limit > 200
  /\ Len(os.procs) > 200
  /\ Len(ret.Processes) = 200
  /\ ret.Count = 200

\* C2: limit normalization maps every input into [1,200]: above 200 becomes
\* 200, 1..200 is kept, a non-positive input becomes the default 10.
C2_LimitNormalized ==
  Replied("getProcessInfo") =>
    /\ ret.limit \in 1..200
    /\ call.limit > 200 => ret.limit = 200
    /\ call.limit \in 1..200 => ret.limit = call.limit
    /\ call.limit <= 0 => ret.limit = 10

C2_Witness ==
  /\ Replied("getProcessInfo")
  /\ call.limit < 0
  /\ ret.limit = 10

\* Lexicographic order of two strings by byte, stated by the first position
\* at which they differ.
LexLeq(a, b) ==
  \/ /\ Len(a) <= Len(b)
     /\ \A i \in 1..Len(a) : a[i] = b[i]
  \/ \E k \in 1..Len(a) :
       /\ k <= Len(b)
       /\ \A i \in 1..(k - 1) : a[i] = b[i]
       /\ ByteOf[a[k]] < ByteOf[b[k]]

\* No letter case of the key spells one of the names.
Unrecognized(key) == ToLower(key) \notin {kMemory, kPid, kName}

C4_IntervalClamped ==
  Replied("getCPUInfo") =>
    /\ ret.window \in 100..10000
    /\ call.intervalMs \in 1..99 => ret.window = 100
    /\ call.intervalMs > 10000 => ret.window = 10000
    /\ call.intervalMs \in 100..10000 => ret.window = call.intervalMs
    /\ call.intervalMs <= 0 => ret.window = 1000
    /\ ret.trace[1].fn = "cpu.Percent" /\ ret.trace[1].n = ret.window

C4_Witness ==
  /\ Replied("getCPUInfo")
  /\ call.intervalMs = 1000000
  /\ ret.window = 10000

TraceCalls(fn) == \E i \in 1..Len(ret.trace) : ret.trace[i].fn = fn

\* C5: with a non-empty path getDiskInfo returns exactly one record, with the
\* path as mountpoint and device "N/A", when the usage query of the path
\* succeeds, and fails with no records when it fails; the partitions are not
\* enumerated.
C5_DiskPath ==
  (Replied("getDiskInfo") /\ call.path # "") =>
    /\ ~TraceCalls("disk.Partitions")
    /\ IF call.path \in os.usageOK
       THEN /\ ret.err.nil
            /\ Len(ret.Disks) = 1
            /\ ret.Disks[1].Mountpoint = call.path
            /\ ret.Disks[1].Device = "N/A"
       ELSE /\ ~ret.err.nil
            /\ ret.Disks = <<>>

\* The path is a mounted partition with a device of its own, and the record
\* still says "N/A".
C5_Witness ==
  /\ Replied("getDiskInfo")
  /\ call.path = "/data"
  /\ \E i \in 1..Len(os.parts) :
       os.parts[i].Mountpoint = "/data" /\ os.parts[i].Device = "/dev/sdb1"
  /\ ret.err.nil
  /\ ret.Disks = <<[Device |-> "N/A", Mountpoint |-> "/data", Fstype |-> "fs"]>>

\* The partitions whose usage query succeeds, in enumeration order.
UsablePartitions == SelectSeq(os.parts, LAMBDA p : p.Mountpoint \in os.usageOK)

\* C6: with an empty path getDiskInfo returns, in enumeration order, one
\* record for each partition whose usage query succeeds; a failing usage
\* query omits the partition without failing the call, which fails only when
\* the enumeration fails.
C6_DiskAll ==
  (Replied("getDiskInfo") /\ call.path = "") =>
    /\ ret.err.nil <=> ~os.partsErr
    /\ os.partsErr => ret.Disks = <<>>
    /\ ~os.partsErr =>
         /\ Len(ret.Disks) = Len(UsablePartitions)
         /\ \A i \in 1..Len(ret.Disks) :
              /\ ret.Disks[i].Mountpoint = UsablePartitions[i].Mountpoint
              /\ ret.Disks[i].Device = UsablePartitions[i].Device

\* Three partitions, the middle one's usage query fails, two records.
C6_Witness ==
  /\ Replied("getDiskInfo")
  /\ call.path = ""
  /\ Len(os.parts) = 3
  /\ os.parts[2].Mountpoint \notin os.usageOK
  /\ ret.err.nil
  /\ Len(ret.Disks) = 2
  /\ ret.Disks[2].Mountpoint = os.parts[3].Mountpoint

\* The interfaces named exactly iface, in the order the OS reports them.
NamedInterfaces == SelectSeq(os.stats, LAMBDA st : st.Name = call.iface)

\* C7: with an empty filter getNetworkInfo returns one record per interface
\* the OS reports; with a filter, exactly the records whose name equals it
\* (case-sensitively); a filter matching nothing gives success with zero
\* records.
C7_NetworkFilter ==
  (Replied("getNetworkInfo") /\ ~os.netErr) =>
    /\ ret.err.nil
    /\ call.iface = "" =>
         /\ Len(ret.Interfaces) = Len(os.stats)
         /\ \A i \in 1..Len(os.stats) : ret.Interfaces[i].Interface = os.stats[i].Name
    /\ call.iface # "" =>
         /\ Len(ret.Interfaces) = Len(NamedInterfaces)
         /\ \A i \in 1..Len(ret.Interfaces) :
              /\ ret.Interfaces[i].Interface = call.iface
              /\ ret.Interfaces[i].BytesSent = NamedInterfaces[i].BytesSent

\* eth0 and Eth0 both exist; the filter eth0 returns the one record.
C7_Witness ==
  /\ Replied("getNetworkInfo")
  /\ call.iface = "eth0"
  /\ \E i \in 1..Len(os.stats) : os.stats[i].Name = "Eth0"
  /\ Len(ret.Interfaces) = 1
  /\ ret.Interfaces[1].Interface = "eth0"

\* The seven operations main.go registers (registerTools, main.go:203-287).
RegisteredOperations ==
  {"get_system_info", "get_cpu_info", "get_memory_info", "get_disk_info",
   "get_network_info", "get_process_info", "get_load_average"}

\* A JSON-RPC request was POSTed, decoded and answered.
AnsweredRPC ==
  /\ pc = "replied"
  /\ mode = "http"
  /\ httpReq.method = "POST"
  /\ httpReq.body.kind = "json"

\* The request was a tools/call naming the tool by a string.
NamedToolCall ==
  /\ AnsweredRPC
  /\ httpReq.body.rpc = "tools/call"
  /\ httpReq.body.params.t = "object"
  /\ httpReq.body.params.name.t = "str"

\* C8: a tools/call naming an operation that is none of the seven registered
\* ones is answered (the server goes on) with an error and no result, the
\* error being the unknown-tool error whose text carries the offending name,
\* and no collector is invoked.
C8_UnknownTool ==
  (NamedToolCall /\ httpReq.body.params.name.s \notin RegisteredOperations) =>
     /\ httpResp.status = 200
     /\ httpResp.body = "json"
     /\ httpResp.hasError
     /\ ~httpResp.hasResult
     /\ httpResp.error.message.format = "unknown tool: %s"
     /\ httpResp.error.message.s = httpReq.body.params.name.s
     /\ call.fn = "none"
     /\ ENABLED Return

C8_Witness ==
  /\ NamedToolCall
  /\ httpReq.body.params.name.s = "bogus"
  /\ httpResp.hasError
  /\ httpResp.error.message.s = "bogus"
  /\ call.fn = "none"

\* C9: a POST whose JSON-RPC method is none of initialize, tools/list and
\* tools/call is answered by a JSON-RPC response whose error has code -32601
\* and a message carrying the method name, and which has no result field.
C9_UnknownMethod ==
  (AnsweredRPC /\ httpReq.body.rpc \notin {"initialize", "tools/list", "tools/call"}) =>
     /\ httpResp.status = 200
     /\ httpResp.body = "json"
     /\ httpResp.hasError
     /\ httpResp.error.code = -32601
     /\ httpResp.error.message.format = "unknown method: %s"
     /\ httpResp.error.message.s = httpReq.body.rpc
     /\ ~httpResp.hasResult

C9_Witness ==
  /\ AnsweredRPC
  /\ httpReq.body.rpc = "resources/list"
  /\ httpResp.hasError
  /\ httpResp.error.code = -32601
  /\ httpResp.error.message.s = "resources/list"

\* The id a response must carry to echo the request's: the id itself, null
\* when the request has none.
EchoOf(id) == IF id.t = "absent" THEN IdNull ELSE id

\* C10: every JSON-RPC response of the HTTP adapter has jsonrpc "2.0" and
\* carries the request's id unchanged (null when the request's id is absent
\* or null), whatever the method and whether the request succeeds or fails.
C10_IdEchoedVerbatim ==
  (pc = "replied" /\ httpResp.body = "json") =>
     /\ httpResp.jsonrpc = "2.0"
     /\ httpResp.id = EchoOf(httpReq.body.id)

\* The request {"jsonrpc":"2.0","id":9007199254740993,"method":"initialize"}
\* is answered with id 9007199254740992.
C10_Witness ==
  /\ AnsweredRPC
  /\ httpReq.body.rpc = "initialize"
  /\ httpReq.body.id = IdNum(2^23, 1)
  /\ httpResp.body = "json"
  /\ httpResp.hasResult
  /\ httpResp.id = IdNum(2^23, 0)

\* An HTTP request was answered.
AnsweredHTTP == pc = "replied" /\ mode = "http"

\* An OPTIONS request is answered with 200 and nothing else: no body, no
\* JSON-RPC result or error, no collector call.
PreflightOnly ==
  httpReq.method = "OPTIONS" =>
     /\ httpResp.status = 200
     /\ httpResp.body = "none"
     /\ ~httpResp.hasResult
     /\ ~httpResp.hasError
     /\ call.fn = "none"

\* C11 (as the code has it): every response of the /mcp handler carries the
\* CORS headers, and an OPTIONS request to /mcp is answered with status 200
\* and an empty body, whatever its body is, without a JSON-RPC method being
\* handled or a collector invoked.
C11_CORSOnMCPEndpoint ==
  (AnsweredHTTP /\ httpReq.path = "/mcp") => (httpResp.cors /\ PreflightOnly)

C11_Witness ==
  /\ AnsweredHTTP
  /\ httpReq.path = "/mcp"
  /\ httpReq.method = "OPTIONS"
  /\ httpReq.body.kind = "invalid"
  /\ httpResp.status = 200
  /\ httpResp.cors

\* C11 (as stated): every response the HTTP transport emits carries the CORS
\* headers, and every OPTIONS request is answered with 200 and an empty body.
C11_CORSOnEveryResponse ==
  AnsweredHTTP => (httpResp.cors /\ PreflightOnly)

\* A request that reached parseConfig with a well-formed blob was answered:
\* ServeHTTP parses the config parameter of every request but OPTIONS.
ConfigGiven ==
  /\ AnsweredHTTP
  /\ httpReq.path = "/mcp"
  /\ httpReq.method # "OPTIONS"
  /\ httpReq.config.t = "ok"

\* C12 (as the code has it): after a request with a well-formed configuration
\* blob the debug flag is as given, and the refresh interval is the given
\* value when that lies in [100,10000] and 1000 otherwise.
C12_ConfigFallback ==
  ConfigGiven =>
     /\ config.EnableDebug = httpReq.config.EnableDebug
     /\ config.RefreshInterval =
          IF httpReq.config.RefreshInterval < 100 \/ httpReq.config.RefreshInterval > 10000
          THEN 1000 ELSE httpReq.config.RefreshInterval

C12_Witness ==
  /\ ConfigGiven
  /\ httpReq.config.RefreshInterval = 20000
  /\ httpReq.config.EnableDebug
  /\ config = [RefreshInterval |-> 1000, EnableDebug |-> TRUE]

\* C12 (as stated): the refresh interval is the given value clamped into
\* [100,10000], and the debug flag is as given.
C12_ConfigClamped ==
  ConfigGiven =>
     /\ config.EnableDebug = httpReq.config.EnableDebug
     /\ config.RefreshInterval =
          IF httpReq.config.RefreshInterval < 100 THEN 100
          ELSE IF httpReq.config.RefreshInterval > 10000 THEN 10000
          ELSE httpReq.config.RefreshInterval

\* The config query parameter of a request is not base64, or not JSON of a
\* configuration record.
Malformed(r) == r.config.t \in {"badbase64", "badjson"}

\* C13: a request to /mcp whose config parameter is malformed leaves the
\* runtime configuration exactly as it was, and is answered (response,
\* collector call and its result) exactly as the same request without a
\* config parameter is: no error about the configuration reaches the caller.
C13_MalformedConfigIgnored ==
  [][ (pc = "idle" /\ pc' = "replied" /\ mode = "http"
         /\ httpReq'.path = "/mcp" /\ Malformed(httpReq'))
      => /\ config' = config
         /\ httpResp' =
              ServeHTTPOutcome(config, [httpReq' EXCEPT !.config = NoConfigParam], os').resp
         /\ call' =
              ServeHTTPOutcome(config, [httpReq' EXCEPT !.config = NoConfigParam], os').call
         /\ httpResp'.error.message.format
              \notin {"failed to decode config: %w", "failed to unmarshal config: %w"}
    ]_vars

C13_Witness ==
  /\ AnsweredHTTP
  /\ httpReq.path = "/mcp"
  /\ httpReq.config.t = "badjson"
  /\ config = [RefreshInterval |-> 500, EnableDebug |-> TRUE]
  /\ httpResp.body = "json"
  /\ httpResp.hasResult

\* The configuration that object k holds once it is complete: the last value
\* stored to each field.
Complete(k) ==
  [RefreshInterval |-> heap[k].RefreshInterval[Len(heap[k].RefreshInterval)],
   EnableDebug |-> heap[k].EnableDebug[Len(heap[k].EnableDebug)]]

\* C14: under any interleaving of concurrent requests, what a request reads
\* of the runtime configuration is a field of a complete configuration, the
\* previous one or a new one: the value read through the pointer it loaded
\* is the value that object was given before it was made visible.
C14_ConfigSnapshot ==
  \A g \in Goroutines :
     gor[g].seen.read => gor[g].seen.EnableDebug = Complete(gor[g].seen.obj).EnableDebug

\* Two requests at once, one installing {refreshInterval 50, enableDebug
\* true}, the other with a malformed config parameter: the second loads the
\* pointer to the first's object and reads EnableDebug as false.
C14_Witness ==
  \E g \in Goroutines :
     /\ gor[g].req.t = "badjson"
     /\ gor[g].seen.read
     /\ gor[g].seen.obj # 1
     /\ Complete(gor[g].seen.obj).EnableDebug
     /\ ~gor[g].seen.EnableDebug

\* A request that invoked a collector was answered.
CollectorAnswered == pc = "replied" /\ call.fn # "none"

\* C15: for every operation exactly one of the success payload and the
\* failure payload is in the response.  When the collector fails, the
\* response carries the collector's error as its failure and no result
\* payload; when it succeeds, the response carries the result and no error.
\* Over HTTP the payloads are the result and error fields of the JSON-RPC
\* response, over stdio the structured output and the error of the handler.
C15_ExactlyOnePayload ==
  /\ (AnsweredHTTP /\ httpResp.body = "json") => (httpResp.hasResult # httpResp.hasError)
  /\ (CollectorAnswered /\ mode = "http") =>
        IF ret.err.nil
        THEN /\ httpResp.hasResult /\ ~httpResp.hasError
             /\ httpResp.result.kind = "content"
             /\ httpResp.result.text.Count = ret.Count
             /\ httpResp.result.text.Processes = ret.Processes
             /\ httpResp.result.text.Disks = ret.Disks
             /\ httpResp.result.text.Interfaces = ret.Interfaces
        ELSE /\ httpResp.hasError /\ ~httpResp.hasResult
             /\ httpResp.error.message = ret.err
  /\ (CollectorAnswered /\ mode = "stdio") =>
        IF ret.err.nil
        THEN toolRes.hasOut /\ toolRes.err.nil
        ELSE ~toolRes.hasOut /\ toolRes.err = ret.err /\ toolRes.errText = ret.err

\* A failing collector over HTTP, and one over stdio.
C15_Witness ==
  /\ CollectorAnswered
  /\ ~ret.err.nil
  /\ ret.err.format = "failed to get host info: %w"
  /\ \/ mode = "http" /\ httpResp.hasError /\ ~httpResp.hasResult
     \/ mode = "stdio" /\ ~toolRes.hasOut /\ ~toolRes.err.nil

\* Two characters are the same letter, whatever their case.
SameLetter(a, b) ==
  \/ a = b
  \/ \E i \in 1..Len(UpperLetters) : {a, b} = {UpperLetters[i], LowerLetters[i]}

\* sub occurs in s as a contiguous run when case is disregarded.
ContainsFold(s, sub) ==
  \E i \in 0..(Len(s) - Len(sub)) :
     \A j \in 1..Len(sub) : SameLetter(s[i + j], sub[j])

Smaller(a, b) == IF a < b THEN a ELSE b

\* C16: in list mode with a non-empty name filter every returned record has
\* a name containing the filter, case disregarded (so no process whose name
\* lacks it is returned); with an empty filter no process is left out for
\* its name: as many records come back as the limit and the process table
\* allow.
C16_NameFilter ==
  (ListMode /\ ret.err.nil) =>
     IF call.name # <<>>
     THEN \A i \in 1..Len(ret.Processes) :
             ContainsFold(ret.Processes[i].Name, call.name)
     ELSE Len(ret.Processes) = Smaller(Len(os.procs), ret.limit)

\* The filter "sH" keeps "sh" and "Sh" and drops a process of another name.
C16_Witness ==
  /\ ListMode
  /\ call.name = <<"s", "H">>
  /\ \E i \in 1..Len(ret.Processes) : ret.Processes[i].Name = <<"s", "h">>
  /\ \E i \in 1..Len(ret.Processes) : ret.Processes[i].Name = <<"S", "h">>
  /\ Len(ret.Processes) < Len(os.procs)
  /\ Len(ret.Processes) < ret.limit

\* The process table holds a process of this PID: process.NewProcess
\* succeeds.
Exists(pid) == \E i \in 1..Len(os.procs) : os.procs[i].Pid = pid

\* C17: with pid > 0 getProcessInfo looks up that one process and does not
\* enumerate.  When the process exists the result is exactly one record, of
\* the requested PID, with Count 1, whatever the name filter, the limit and
\* the sort key; when it cannot be opened the call fails with no records.
C17_SingleLookup ==
  (Replied("getProcessInfo") /\ call.pid > 0) =>
     /\ ~TraceCalls("process.Processes")
     /\ IF Exists(call.pid)
        THEN /\ ret.err.nil
             /\ Len(ret.Processes) = 1
             /\ ret.Processes[1].PID = call.pid
             /\ ret.Count = 1
        ELSE /\ ~ret.err.nil
             /\ ret.Processes = <<>>
             /\ ret.Count = 0

\* PID 3 is looked up with a name filter its name does not match, among
\* other processes.
C17_Witness ==
  /\ Replied("getProcessInfo")
  /\ call.pid = 3
  /\ call.name = <<"z">>
  /\ Len(os.procs) > 1
  /\ ret.Count = 1
  /\ ret.Processes[1].PID = 3

\* The collector behind each registered operation.
CollectorOf(name) ==
  CASE name = "get_system_info" -> "getSystemInfo"
    [] name = "get_cpu_info" -> "getCPUInfo"
    [] name = "get_memory_info" -> "getMemoryInfo"
    [] name = "get_disk_info" -> "getDiskInfo"
    [] name = "get_network_info" -> "getNetworkInfo"
    [] name = "get_process_info" -> "getProcessInfo"
    [] name = "get_load_average" -> "getLoadAverage"

\* A tools/call naming a registered operation was answered.
RegisteredToolCall ==
  NamedToolCall /\ httpReq.body.params.name.s \in RegisteredOperations

\* The argument bag of the request: its fields, all absent when arguments
\* is absent or no object.
Bag ==
  IF httpReq.body.params.arguments.t = "object"
  THEN httpReq.body.params.arguments ELSE NoArguments

\* An integer parameter p agrees with the field v supplied for it: the
\* default when v is absent or no number; the number itself when it is an
\* integer; the number without its fraction when it has one; some integer
\* when it is beyond every int.
IntegerParameter(p, v, default) ==
  IF v.t # "num" THEN p = default
  ELSE IF v.huge THEN p \in Int
  ELSE IF v.half THEN p = (IF v.n < 0 THEN v.n + 1 ELSE v.n)
  ELSE p = v.n

\* C18 (as the code has it): for a tools/call naming a registered
\* operation, whatever the argument bag, the collector of the operation is
\* invoked and the only error the response can carry is the collector's own;
\* a parameter is the default when its field is absent or of another JSON
\* type, and the supplied value otherwise, a number being converted to an
\* integer by dropping its fraction; and the limit and the sampling interval
\* the collector works with are within their bounds.
C18_NormalizationTotal ==
  RegisteredToolCall =>
     /\ call.fn = CollectorOf(httpReq.body.params.name.s)
     /\ httpResp.status = 200
     /\ httpResp.hasError => (~ret.err.nil /\ httpResp.error.message = ret.err)
     /\ call.fn = "getCPUInfo" =>
          /\ call.perCPU = (Bag.per_cpu.t = "bool" /\ Bag.per_cpu.b)
          /\ IntegerParameter(call.intervalMs, Bag.interval_ms, 1000)
          /\ ret.window \in 100..10000
     /\ call.fn = "getDiskInfo" =>
          call.path = (IF Bag.path.t = "str" THEN Bag.path.s ELSE "")
     /\ call.fn = "getNetworkInfo" =>
          call.iface = (IF Bag.interface.t = "str" THEN Bag.interface.s ELSE "")
     /\ call.fn = "getProcessInfo" =>
          /\ IntegerParameter(call.pid, Bag.pid, 0)
          /\ IntegerParameter(call.limit, Bag.limit, 10)
          /\ call.name = (IF Bag.name.t = "str" THEN Bag.name.cs ELSE <<>>)
          /\ call.sortBy = (IF Bag.sort_by.t = "str" THEN Bag.sort_by.cs ELSE <<>>)
          /\ ret.limit \in 1..200

\* An integer parameter p is the value supplied for it when that is an
\* integer, and the default otherwise.
SuppliedOrDefault(p, v, default) ==
  IF v.t = "num" /\ ~v.half /\ ~v.huge THEN p = v.n ELSE p = default

\* C18 (as stated): for a tools/call naming a registered operation the
\* collector is invoked without a normalization error, with parameters that
\* are each the supplied well-typed value or the documented default, and
\* the limit and the sampling interval end up within their bounds.
C18_SuppliedOrDefault ==
  RegisteredToolCall =>
     /\ call.fn = CollectorOf(httpReq.body.params.name.s)
     /\ httpResp.hasError => (~ret.err.nil /\ httpResp.error.message = ret.err)
     /\ call.fn = "getCPUInfo" =>
          /\ SuppliedOrDefault(call.intervalMs, Bag.interval_ms, 1000)
          /\ ret.window \in 100..10000
     /\ call.fn = "getProcessInfo" =>
          /\ SuppliedOrDefault(call.pid, Bag.pid, 0)
          /\ SuppliedOrDefault(call.limit, Bag.limit, 10)
          /\ ret.limit \in 1..200

\* get_process_info is called with arguments {"limit": 2.5}: the collector
\* runs with limit 2 and returns two records.
C18_Witness ==
  /\ RegisteredToolCall
  /\ call.fn = "getProcessInfo"
  /\ Bag.limit = JHalf(2)
  /\ Bag.pid.t = "absent"
  /\ call.limit = 2
  /\ ret.Count = 2
  /\ httpResp.hasResult

\* One response was written: a status, and the one body that goes with it.
OneResponse ==
  \/ httpResp.status = 200 /\ httpResp.body \in {"json", "none", "health"}
  \/ httpResp.status \in {400, 405} /\ httpResp.body = "text"

\* C19: after any sequence of HTTP requests, well-formed or not, every
\* request receives exactly one response and the server remains able to
\* serve the next one: whenever the server waits it can take a request, every
\* request it takes is answered in full, and after every answer it returns
\* to waiting.
C19_EveryRequestAnswered ==
  /\ [](mode = "http" =>
          /\ pc = "idle" => ENABLED ServeHTTP
          /\ pc = "replied" => (OneResponse /\ ENABLED Return))
  /\ [][ (mode = "http" /\ pc = "idle") => (pc' = "replied" /\ OneResponse') ]_vars
  /\ [][ (mode = "http" /\ pc = "replied") => (pc' = "idle" /\ config' = config) ]_vars

\* After a request that turned debugging on, a POST that is not JSON is
\* answered with 400.
C19_Witness ==
  /\ AnsweredHTTP
  /\ config.EnableDebug
  /\ httpReq.config.t = "badbase64"
  /\ httpReq.body.kind = "invalid"
  /\ httpReq.method = "POST"
  /\ httpResp.status = 400

\* Nothing of JSON-RPC was done for the request: the reply is plain text, no
\* result, no error object, no collector call.
NotDispatched ==
  /\ httpResp.body = "text"
  /\ ~httpResp.hasResult
  /\ ~httpResp.hasError
  /\ httpResp.result.kind = "nil"
  /\ call.fn = "none"

\* C20: a request to /mcp that is malformed at the transport boundary is
\* rejected before any JSON-RPC method is handled or collector invoked: with
\* 405 when its HTTP method is neither POST nor OPTIONS, whatever its body,
\* and with 400 when it is a POST whose body cannot be read or is not valid
\* JSON.
C20_RejectedAtBoundary ==
  (AnsweredHTTP /\ httpReq.path = "/mcp") =>
     /\ httpReq.method \notin {"POST", "OPTIONS"} =>
           (httpResp.status = 405 /\ NotDispatched)
     /\ (httpReq.method = "POST" /\ httpReq.body.kind \in {"unreadable", "invalid"}) =>
           (httpResp.status = 400 /\ NotDispatched)

\* A GET whose body is a well-formed tools/call is answered 405 and no
\* collector runs.
C20_Witness ==
  /\ AnsweredHTTP
  /\ httpReq.method = "GET"
  /\ httpReq.body.kind = "json"
  /\ httpReq.body.rpc = "tools/call"
  /\ httpResp.status = 405
  /\ call.fn = "none"

\* A tools/list request was answered.
ToolsListed ==
  /\ AnsweredRPC
  /\ httpReq.body.rpc = "tools/list"

\* The handler that serves a stdio request naming t, if there is one.
StdioHandler(t) ==
  \/ t = "get_system_info" /\ StdioGetSystemInfo
  \/ t = "get_cpu_info" /\ StdioGetCPUInfo
  \/ t = "get_memory_info" /\ StdioGetMemoryInfo
  \/ t = "get_disk_info" /\ StdioGetDiskInfo
  \/ t = "get_network_info" /\ StdioGetNetworkInfo
  \/ t = "get_process_info" /\ StdioGetProcessInfo
  \/ t = "get_load_average" /\ StdioGetLoadAverage

\* A stdio request naming t can be served now, under that name.
StdioServes(t) == ENABLED (StdioHandler(t) /\ call'.tool = t)

\* C21: the operations are the same seven names everywhere, in every
\* reachable state: tools/list answers with exactly the seven names, each
\* once; tools/call invokes a collector for exactly those names, the one of
\* the operation, and answers any other name with the unknown-tool error;
\* and the stdio server serves exactly those names, each with its
\* collector.
C21_SameOperations ==
  /\ ToolsListed =>
        /\ httpResp.hasResult
        /\ Range(httpResp.result.tools) = RegisteredOperations
        /\ Len(httpResp.result.tools) = Cardinality(RegisteredOperations)
  /\ NamedToolCall =>
        /\ (call.fn # "none") = (httpReq.body.params.name.s \in RegisteredOperations)
        /\ call.fn # "none" =>
              /\ call.tool = httpReq.body.params.name.s
              /\ call.fn = CollectorOf(call.tool)
        /\ call.fn = "none" =>
              /\ httpResp.hasError
              /\ httpResp.error.message.format = "unknown tool: %s"
  /\ (pc = "replied" /\ mode = "stdio") =>
        /\ call.tool \in RegisteredOperations
        /\ call.fn = CollectorOf(call.tool)
  /\ (pc = "idle" /\ mode = "stdio") =>
        \A t \in RegisteredOperations \cup {"bogus", "GET_CPU_INFO", ""} :
           StdioServes(t) = (t \in RegisteredOperations)
  /\ Cardinality(RegisteredOperations) = 7

\* After a configuration was installed, tools/list is answered with seven
\* names, get_load_average among them.
C21_Witness ==
  /\ ToolsListed
  /\ config # NewHTTPServer
  /\ Len(httpResp.result.tools) = 7
  /\ httpResp.result.tools[7] = "get_load_average"

\* The fields each operation declares, and their JSON types.
DeclaredFields(tool) ==
  IF tool = "get_cpu_info" THEN {"per_cpu", "interval_ms"}
  ELSE IF tool = "get_disk_info" THEN {"path"}
  ELSE IF tool = "get_network_info" THEN {"interface"}
  ELSE IF tool = "get_process_info" THEN {"pid", "name", "limit", "sort_by"}
  ELSE {}

FieldNames ==
  {"per_cpu", "interval_ms", "path", "interface", "pid", "name", "limit",
   "sort_by", "verbose"}

OfDeclaredType(f, v) ==
  IF f = "per_cpu" THEN v.t = "bool"
  ELSE IF f \in {"interval_ms", "pid", "limit"} THEN v.t = "num" /\ ~v.half /\ ~v.huge
  ELSE v.t = "str"

\* The arguments are absent or an object, every field supplied is one the
\* operation declares, and its value is of the declared type.
WellTyped(tool, arguments) ==
  /\ arguments.t \in {"absent", "object"}
  /\ \A f \in FieldNames :
        arguments[f].t # "absent" =>
          f \in DeclaredFields(tool) /\ OfDeclaredType(f, arguments[f])

\* What the collector of the call c returns when the OS reports o.
Collect(c, o) ==
  CASE c.fn = "getSystemInfo" -> getSystemInfo(o)
    [] c.fn = "getCPUInfo" -> getCPUInfo(o, c.perCPU, c.intervalMs)
    [] c.fn = "getMemoryInfo" -> getMemoryInfo(o)
    [] c.fn = "getDiskInfo" -> getDiskInfo(o, c.path)
    [] c.fn = "getNetworkInfo" -> getNetworkInfo(o, c.iface)
    [] c.fn = "getProcessInfo" -> getProcessInfo(o, c.pid, c.name, c.limit, c.sortBy)
    [] c.fn = "getLoadAverage" -> getLoadAverage(o)

\* The call the stdio handler makes for the tool and the argument bag of
\* the HTTP request just answered.
StdioTwin ==
  StdioCall(httpReq.body.params.name.s, UnmarshalArgs(Bag))

\* C22: for every operation and every argument bag whose fields are
\* declared by the operation and of the declared types, the stdio handler
\* and the HTTP tools/call handler invoke the same collector with the same
\* pid, name filter, sort key, path, interface and per-CPU flag and the same
\* effective limit and sampling interval, the collector returns the same to
\* both, and both report a failure exactly when the collector fails.
C22_SameDispatch ==
  (RegisteredToolCall /\ WellTyped(httpReq.body.params.name.s, httpReq.body.params.arguments)) =>
     /\ call.fn = StdioTwin.fn
     /\ call.tool = StdioTwin.tool
     /\ call.pid = StdioTwin.pid
     /\ call.name = StdioTwin.name
     /\ call.sortBy = StdioTwin.sortBy
     /\ call.path = StdioTwin.path
     /\ call.iface = StdioTwin.iface
     /\ call.perCPU = StdioTwin.perCPU
     /\ NormalizeLimit(call.limit) = NormalizeLimit(StdioTwin.limit)
     /\ EffectiveInterval(call.intervalMs) = EffectiveInterval(StdioTwin.intervalMs)
     /\ ret = Collect(StdioTwin, os)
     /\ httpResp.hasError = ~ToolResult(Collect(StdioTwin, os), "").err.nil
     /\ httpResp.hasResult = ToolResult(Collect(StdioTwin, os), "").hasOut

\* A process listing with no limit given: HTTP passes 10 and stdio 0, and
\* both list with the limit 10.
C22_Witness ==
  /\ RegisteredToolCall
  /\ WellTyped(httpReq.body.params.name.s, httpReq.body.params.arguments)
  /\ call.fn = "getProcessInfo"
  /\ httpReq.body.params.arguments.t = "object"
  /\ Bag.limit.t = "absent"
  /\ Bag.sort_by.t = "str"
  /\ call.limit = 10
  /\ StdioTwin.limit = 0
  /\ ret.limit = 10
  /\ ret.Count = 10

\* An initialize request was answered.
Initialized ==
  /\ AnsweredRPC
  /\ httpReq.body.rpc = "initialize"

\* A request to /health was answered.
HealthChecked ==
  /\ pc = "replied"
  /\ mode = "http"
  /\ httpReq.path = "/health"

\* C23: ServerVersion is "1.0.0" and Version is not empty, and the name
\* "linux-system-mcp" and the version Version are what initialize reports
\* as serverInfo and what the health check reports as service and version.
C23_ServerIdentity ==
  /\ ServerVersion = "1.0.0"
  /\ Version # ""
  /\ Initialized =>
        /\ httpResp.hasResult
        /\ httpResp.result.name = "linux-system-mcp"
        /\ httpResp.result.version = Version
  /\ HealthChecked =>
        /\ httpResp.result.name = "linux-system-mcp"
        /\ httpResp.result.version = Version

\* initialize is answered with the server name "posix-system-mcp".
C23_Witness ==
  /\ Initialized
  /\ httpResp.hasResult
  /\ httpResp.result.name = "posix-system-mcp"
  /\ httpResp.result.name = ServerName
  /\ httpResp.result.version = "1.0.0"

\* The records made of the processes enumerated, in enumeration order.
Records == [i \in 1..Len(os.procs) |-> getProcessDetails(os.procs[i]).info]

\* The record passes the name filter.
Passes(r) == call.name = <<>> \/ ContainsFold(r.Name, call.name)

\* G: in enumeration order, the first 2*L records that pass the name filter,
\* all of them when there are fewer.
Gathered ==
  SubSeq(SelectSeq(Records, Passes), 1,
         Smaller(2 * ret.limit, Len(SelectSeq(Records, Passes))))

\* The key spells k, whatever the case of its letters.
KeyIs(key, k) ==
  /\ Len(key) = Len(k)
  /\ \A i \in 1..Len(k) : SameLetter(key[i], k[i])

\* The order a sort key asks for: by pid, by name, by memory, and by cpu
\* for any other key.
OrderOf(key) ==
  IF KeyIs(key, kPid) THEN "pid"
  ELSE IF KeyIs(key, kName) THEN "name"
  ELSE IF KeyIs(key, kMemory) THEN "memory"
  ELSE "cpu"

\* The record a is strictly before the record b in the order: ascending
\* pid, ascending name, descending memory, descending cpu.
Precedes(order, a, b) ==
  IF order = "pid" THEN a.PID < b.PID
  ELSE IF order = "name" THEN ~LexLeq(b.Name, a.Name)
  ELSE IF order = "memory" THEN a.MemoryPercent > b.MemoryPercent
  ELSE a.CPUPercent > b.CPUPercent

\* The place of the i-th record of G in the stable sort of G: one more than
\* the number of records of G that are before it in the order of the key,
\* or equal to it in that order and earlier in G.
Place(order, G, i) ==
  1 + Cardinality(
        {j \in 1..Len(G) :
           \/ Precedes(order, G[j], G[i])
           \/ ~Precedes(order, G[i], G[j]) /\ j < i})

\* C24: in list mode the result is exactly the first L records of the
\* stable sort by the sort key of G, L being the effective limit and G, in
\* enumeration order, the first 2*L processes that pass the name filter (all
\* of them when there are fewer); a process enumerated after that never
\* appears.
C24_ScanSortTruncate ==
  (ListMode /\ ret.err.nil) =>
     \A G \in {Gathered}, order \in {OrderOf(call.sortBy)} :
        /\ Len(ret.Processes) = Smaller(ret.limit, Len(G))
        /\ \A i \in 1..Len(G) :
              \A place \in {Place(order, G, i)} :
                 place <= ret.limit => ret.Processes[place] = G[i]
        /\ \A k \in 1..Len(ret.Processes) :
              \E i \in 1..Len(G) : ret.Processes[k] = G[i]

\* Twenty-five processes and the limit 10: the scan stops after twenty, and
\* a process enumerated later, with more CPU than the last record returned,
\* is not in the result.
C24_Witness ==
  /\ ListMode
  /\ ret.limit = 10
  /\ call.name = <<>>
  /\ call.sortBy = kCpu
  /\ Len(os.procs) = 25
  /\ Len(ret.Processes) = 10
  /\ \E i \in 21..25 :
        /\ os.procs[i].CPU > ret.Processes[10].CPUPercent
        /\ \A k \in 1..10 : ret.Processes[k].PID # os.procs[i].Pid

\* For each record of out, where it stands in in (0 when it is not there).
Origins(in, out) ==
  SubSeq([k \in 1..Len(out) |->
            IF \E i \in 1..Len(in) : in[i] = out[k]
            THEN CHOOSE i \in 1..Len(in) : in[i] = out[k]
            ELSE 0],
         1, Len(out))

\* The records a and b have equal values of the sort key.
Tied(order, a, b) == ~Precedes(order, a, b) /\ ~Precedes(order, b, a)

\* C25: sortProcessesBy is a stable permutation for every sort key: on the
\* list a process listing gathers, its output holds the same records as its
\* input, each once (no two processes share a PID), and two records with
\* equal values of the sort key stand in the output in the order they had
\* in the input; the listing returns that output, cut to the limit.
C25_StablePermutation ==
  (ListMode /\ ret.err.nil) =>
     \A in \in {Gathered} :
       \A out \in {sortProcessesBy(in, call.sortBy)} :
         \A from \in {Origins(in, out)}, order \in {OrderOf(call.sortBy)} :
            /\ Len(out) = Len(in)
            /\ \A k \in 1..Len(out) : from[k] # 0
            /\ Cardinality(Range(from)) = Len(in)
            /\ \A k \in 1..Len(out), l \in 1..Len(out) :
                  (k < l /\ Tied(order, out[k], out[l])) => from[k] < from[l]
            /\ ret.Processes = SubSeq(out, 1, Smaller(ret.limit, Len(out)))

\* Three processes, the first and the last tied on CPU and the one between
\* them with less: the tied ones come first, in their enumeration order.
C25_Witness ==
  /\ ListMode
  /\ call.sortBy = kCpu
  /\ Len(os.procs) = 3
  /\ Len(ret.Processes) = 3
  /\ os.procs[1].CPU = os.procs[3].CPU
  /\ os.procs[2].CPU < os.procs[1].CPU
  /\ ret.Processes[1].PID = os.procs[1].Pid
  /\ ret.Processes[2].PID = os.procs[3].Pid
  /\ ret.Processes[3].PID = os.procs[2].Pid

\* The detail queries of the process fail: it has gone.
Fails(p) == p.gone

\* What the OS would report if the processes whose queries fail were not
\* enumerated at all.
WithoutFailing == [os EXCEPT !.procs = SelectSeq(os.procs, LAMBDA p : ~Fails(p))]

\* C26: in list mode a process whose detail collection fails is skipped:
\* the call succeeds, no record of that process is in the result, and it
\* does not count toward the scan bound: the result is the one the call
\* gives when such processes are not enumerated at all.
C26_FailedProcessSkipped ==
  (ListMode /\ ~os.procsErr) =>
     /\ ret.err.nil
     /\ \A i \in 1..Len(os.procs), k \in 1..Len(ret.Processes) :
           Fails(os.procs[i]) => ret.Processes[k].PID # os.procs[i].Pid
     /\ ret.Processes =
          getProcessInfo(WithoutFailing, call.pid, call.name, call.limit,
                         call.sortBy).Processes

\* A process has gone when its details are queried, no name filter is
\* given, and the result holds a record of it with an empty name and zeros.
C26_Witness ==
  /\ ListMode
  /\ ret.err.nil
  /\ call.name = <<>>
  /\ \E i \in 1..Len(os.procs), k \in 1..Len(ret.Processes) :
        /\ Fails(os.procs[i])
        /\ ret.Processes[k].PID = os.procs[i].Pid
        /\ ret.Processes[k].Name = <<>>
        /\ ret.Processes[k].CPUPercent = 0

\* The configuration a well-formed blob installs.
Installed(param) ==
  [RefreshInterval |->
     IF param.RefreshInterval \in 100..10000 THEN param.RefreshInterval ELSE 1000,
   EnableDebug |-> param.EnableDebug]

\* A request with a well-formed configuration blob is taken.
TakesBlob ==
  /\ mode = "http"
  /\ pc = "idle"
  /\ pc' = "replied"
  /\ httpReq'.config.t = "ok"

\* C27 (as the code has it): a well-formed configuration blob replaces the
\* runtime configuration on every request to /mcp of a method other than
\* OPTIONS, whether the request is then answered with a result, with a
\* JSON-RPC error, or rejected with 405 or 400; an OPTIONS request and a
\* request to /health leave the configuration as it was.
C27_ConfigReplacedUnlessPreflight ==
  /\ [](ConfigGiven =>
          /\ config = Installed(httpReq.config)
          /\ httpResp.status \in {200, 400, 405})
  /\ [][ (TakesBlob /\ (httpReq'.method = "OPTIONS" \/ httpReq'.path = "/health"))
            => config' = config ]_vars

\* A GET with a blob is rejected with 405, and the configuration is the
\* blob's.
C27_Witness ==
  /\ ConfigGiven
  /\ httpReq.method = "GET"
  /\ httpResp.status = 405
  /\ httpReq.config = ConfigParam(500, TRUE)
  /\ config = [RefreshInterval |-> 500, EnableDebug |-> TRUE]

\* C27 (as stated): after any request with a well-formed configuration
\* blob, whatever its method, the runtime configuration is the blob's.
C27_ConfigReplacedOnAnyRequest ==
  (AnsweredHTTP /\ httpReq.config.t = "ok") => config = Installed(httpReq.config)

\* C28: in every reachable state of the HTTP adapter, from start-up and
\* after any sequence of requests with any configuration blob or none, the
\* runtime configuration is present and its refresh interval lies in
\* [100,10000].
C28_ConfigAlwaysValid ==
  mode = "http" =>
     /\ config \in [RefreshInterval : 100..10000, EnableDebug : BOOLEAN]
     /\ hconfig[Len(hconfig)] \in 1..Len(heap)
     /\ Complete(hconfig[Len(hconfig)]).RefreshInterval \in 100..10000

\* After a blob with a negative refresh interval, and one turning
\* debugging on, the interval is 1000.
C28_Witness ==
  /\ AnsweredHTTP
  /\ httpReq.config.t = "ok"
  /\ httpReq.config.RefreshInterval < 0
  /\ httpReq.method = "POST"
  /\ config = [RefreshInterval |-> 1000, EnableDebug |-> TRUE]

\* The request just answered is one of those the adapter answers with a
\* JSON-RPC error: an unknown method, or a tools/call whose params are no
\* object, whose tool name is missing or no string, whose tool is unknown,
\* or whose collector failed.
ErrorCause ==
  /\ AnsweredRPC
  /\ \/ httpReq.body.rpc \notin {"initialize", "tools/list", "tools/call"}
     \/ /\ httpReq.body.rpc = "tools/call"
        /\ \/ httpReq.body.params.t # "object"
           \/ httpReq.body.params.name.t # "str"
           \/ httpReq.body.params.name.s \notin RegisteredOperations
           \/ ~ret.err.nil

\* C29: every JSON-RPC error object the HTTP adapter writes carries the
\* code -32601, whatever caused it, and each of the causes (unknown method,
\* unknown tool, params that are no object, a missing or non-string tool
\* name, a collector failure) is answered with such an error object; a
\* response without an error carries no code.
C29_OneErrorCode ==
  AnsweredHTTP =>
     /\ httpResp.hasError => (httpResp.body = "json" /\ httpResp.error.code = -32601)
     /\ ErrorCause = httpResp.hasError
     /\ ~httpResp.hasError => httpResp.error = NoErrorObject

\* A tools/call whose params are no object, and one whose collector fails,
\* are answered with the code -32601.
C29_Witness ==
  /\ AnsweredRPC
  /\ httpReq.body.rpc = "tools/call"
  /\ httpResp.hasError
  /\ httpResp.error.code = -32601
  /\ \/ httpReq.body.params.t = "other"
     \/ call.fn = "getLoadAverage" /\ ~ret.err.nil
  /\ httpResp.error.message.format \in {"invalid params format", "failed to get load average: %w"}

\* C30: all the reads of the runtime configuration made while one request
\* is handled see the same snapshot: the same configuration object, and the
\* same debug flag in it.
C30_OneSnapshotPerRequest ==
  \A g \in Goroutines :
     \A i \in 1..Len(gor[g].reads), j \in 1..Len(gor[g].reads) :
        /\ gor[g].reads[i].obj = gor[g].reads[j].obj
        /\ gor[g].reads[i].EnableDebug = gor[g].reads[j].EnableDebug

\* A tools/call without a config parameter reads the start-up configuration
\* in handleMCPRequest (debugging off) and, after another request installed
\* a configuration, that one in handleToolCall (debugging on).
C30_Witness ==
  \E g \in Goroutines :
     /\ gor[g].req.t = "absent"
     /\ gor[g].kind = "call"
     /\ Len(gor[g].reads) = 2
     /\ gor[g].reads[1].site = "handleMCPRequest"
     /\ gor[g].reads[1].obj = 1
     /\ ~gor[g].reads[1].EnableDebug
     /\ gor[g].reads[2].site = "handleToolCall"
     /\ gor[g].reads[2].obj # 1
     /\ gor[g].reads[2].EnableDebug
     /\ Complete(gor[g].reads[2].obj).EnableDebug
====
